---- MODULE Spec2Model ----
(***************************************************************************)
(* Model of the Shopify app generator: the HTTP endpoint of src/server.js  *)
(* and the workflow generateShopifyApp in three of its iterations:         *)
(*   "v2"  src/src/lib/generateShopifyApp.js lines 557-1224 (re-auth wall   *)
(*         detection, interactive wait, session-state persistence),        *)
(*   "v3"  src/src/lib/generateShopifyApp.js lines 1225-1867 (look-up of    *)
(*         the created app in the apps list),                              *)
(*   "p3"  src/unnamed/part_003 (account-chooser bypass loop).              *)
(* A run is a sequence of steps, one per awaited group of browser          *)
(* operations; the console UI is the environment and answers each step     *)
(* nondeterministically.  Strings that the code inspects (URLs, domains,   *)
(* names) are sequences of tokens, so that includes / endsWith / regular   *)
(* expression matches are computed and not assumed.                        *)
(***************************************************************************)
EXTENDS Naturals, Sequences, FiniteSets, TLC

VARIABLES
    impl,       \* which iteration of generateShopifyApp is deployed
    env,        \* process.env, fixed for the life of the process
    blobFile,   \* content of the file at the storage-state path
    entry,      \* "http": through POST /shopify/app-generator, "direct": core called directly
    req,        \* the request: brand_name, store_domain (+ stub, dry_run until the mode is resolved)
    http,       \* the endpoint's progress and response
    pc,         \* position of the run inside generateShopifyApp
    inTry,      \* the run is inside the try block that has the finally clause
    browser,    \* the browser owned by the run
    stageLog,   \* the stages started so far, in order
    stageState, \* state of each stage
    page,       \* URL of the main page and what the run extracted from it
    dist,       \* the distribution page: URL, navigations, bypass attempts, wait
    scan,       \* the last candidate scan: list, statuses found, candidates queried, hit
    creds,      \* clientId and clientSecret as scraped
    link,       \* the activation link as scraped
    ui,         \* the current stage's dealings with the form: readback, clicks, screenshot
    pending,    \* the completion (return value or error) waiting for the finally clause
    outcome,    \* what the caller of generateShopifyApp received
    race        \* two calls in flight in one process: where each is, and the saves in order

vars == <<impl, env, blobFile, entry, req, http, pc, inTry, browser, stageLog,
          stageState, page, dist, scan, creds, link, ui, pending, outcome, race>>

runVars == <<pc, inTry, browser, stageLog, stageState, page, dist, scan, creds, link,
             ui, pending, outcome>>
runVars_noScan == <<pc, inTry, browser, stageLog, stageState, page, dist, creds, link,
                    ui, pending, outcome>>

-----------------------------------------------------------------------------
(* JavaScript values and strings *)

Str(tokens) == [type |-> "string", val |-> tokens]
Undefined == [type |-> "undefined", val |-> <<>>]
Num(tokens) == [type |-> "number", val |-> tokens]
Bool(b) == [type |-> "boolean", val |-> IF b THEN <<"true">> ELSE <<"false">>]

\* !v  (falsy: undefined, "", 0, false)
Falsy(v) ==
    \/ v.type = "undefined"
    \/ v.type = "string" /\ v.val = <<>>
    \/ v.type = "number" /\ v.val = <<"0">>
    \/ v.type = "boolean" /\ v.val = <<"false">>

\* String.prototype.includes on token sequences
Includes(s, pat) ==
    \E i \in 1..(Len(s) + 1) :
        /\ i + Len(pat) - 1 <= Len(s)
        /\ SubSeq(s, i, i + Len(pat) - 1) = pat

\* String.prototype.endsWith
EndsWith(s, pat) ==
    /\ Len(pat) <= Len(s)
    /\ SubSeq(s, Len(s) - Len(pat) + 1, Len(s)) = pat

\* clean(s): collapse every run of whitespace into one space, then trim
IsSpace(t) == t \in {" ", "\t", "\n"}

RECURSIVE Collapse(_)
Collapse(s) ==
    IF s = <<>> THEN <<>>
    ELSE IF IsSpace(Head(s))
         THEN IF Len(s) > 1 /\ IsSpace(s[2])
              THEN Collapse(Tail(s))
              ELSE <<" ">> \o Collapse(Tail(s))
         ELSE <<Head(s)>> \o Collapse(Tail(s))

RECURSIVE TrimLeft(_)
TrimLeft(s) == IF s # <<>> /\ IsSpace(Head(s)) THEN TrimLeft(Tail(s)) ELSE s

RECURSIVE TrimRight(_)
TrimRight(s) ==
    IF s # <<>> /\ IsSpace(s[Len(s)]) THEN TrimRight(SubSeq(s, 1, Len(s) - 1)) ELSE s

Trim(s) == TrimRight(TrimLeft(s))

clean(s) == Trim(Collapse(s))

-----------------------------------------------------------------------------
(* URLs *)

AccountsHost == "accounts.shopify.com"
PartnersHost == "partners.shopify.com"
DefaultPartnersId == "2767396"

Digits == {"123", "456", "130027305", DefaultPartnersId}

DashboardUrl == <<"https://", "dev.shopify.com", "/dashboard/", "130027305", "/apps">>
DashboardUrlNoId == <<"https://", "dev.shopify.com", "/organizations">>
AppsNewUrl == <<"https://", "dev.shopify.com", "/dashboard/", "130027305", "/apps", "/new">>

\* URLs the console can land on after the creation form is submitted
AppDetailUrl == <<"https://", "dev.shopify.com", "/dashboard/", "130027305", "/apps/", "123">>
AppDetailSubUrl == AppDetailUrl \o <<"/", "overview">>
AppDetailOddUrl == AppDetailUrl \o <<"abc">>

\* the app the creation form creates has the id 123; another app of the organization,
\* whose name holds the name of the new app, has the id 456
CreatedAppId == "123"
OtherAppUrl == <<"https://", "dev.shopify.com", "/dashboard/", "130027305", "/apps/", "456">>

ChooserUrl == <<"https://", AccountsHost, "/select">>
LoginUrl == <<"https://", AccountsHost, "/login">>
PartnersHomeUrl == <<"https://", PartnersHost, "/", DefaultPartnersId, "/apps">>
ElsewhereUrl == <<"https://", "www.shopify.com", "/">>

distributionUrl(partnersId, appId) ==
    <<"https://", PartnersHost, "/", partnersId, "/apps/", appId, "/distribution">>

\* where the browser can be after a navigation to the distribution URL
DistLandings(target) == {target, ChooserUrl, LoginUrl, PartnersHomeUrl, ElsewhereUrl}

\* the tokens that begin with '/'
PathTokens == {"/", "/distribution", "/settings", "/versions/new"}

\* variant: the digits may be followed by anything
extractAppIdLoose(url) ==
    LET hits == {i \in 1..Len(url) :
                    url[i] = "/apps/" /\ i + 1 <= Len(url) /\ url[i + 1] \in Digits}
    IN IF hits = {} THEN "" ELSE url[(CHOOSE i \in hits : \A j \in hits : i <= j) + 1]

\* extractAppId: /\/apps\/(\d+)(?:\/|$)/ ; "" stands for null
extractAppId(url) ==
    LET hits == {i \in 1..Len(url) :
                    /\ url[i] = "/apps/"
                    /\ i + 1 <= Len(url)
                    /\ url[i + 1] \in Digits
                    /\ (i + 1 = Len(url) \/ url[i + 2] \in PathTokens)}
    IN IF hits = {} THEN "" ELSE url[(CHOOSE i \in hits : \A j \in hits : i <= j) + 1]

\* the pattern of waitForURL(/\/apps\/\d+/)
MatchesAppsDigits(url) ==
    \E i \in 1..Len(url) : url[i] = "/apps/" /\ i + 1 <= Len(url) /\ url[i + 1] \in Digits

\* dashboardIdFromUrl: /\/dashboard\/(\d+)\b/ ; "" stands for null
dashboardIdFromUrl(v) ==
    IF v.type # "string" THEN ""
    ELSE LET u == v.val
             hits == {i \in 1..Len(u) :
                         u[i] = "/dashboard/" /\ i + 1 <= Len(u) /\ u[i + 1] \in Digits}
         IN IF hits = {} THEN "" ELSE u[(CHOOSE i \in hits : \A j \in hits : i <= j) + 1]

-----------------------------------------------------------------------------
(* Inputs *)

Suffix == "myshopify.com"
AcmeDomain == <<"acme.", Suffix>>

BrandValues == {Str(<<"Acme">>), Str(<<>>), Undefined, Num(<<"42">>)}
DomainValues == {Str(AcmeDomain), Str(<<"example.com">>), Str(<<>>), Undefined, Num(<<"42">>)}
\* a domain that contains the suffix and does not end in it
LookalikeDomain == <<"acme.", Suffix, ".example.net">>
FlagValues == {Bool(TRUE), Bool(FALSE), Undefined, Str(<<"true">>)}
EnvFlagValues == {Str(<<"TRUE">>), Str(<<"false">>), Undefined}

\* session blobs: the one captured before deployment, and one saved after a re-authentication
OriginalBlob == "original"
RefreshedBlob == "refreshed"

\* the part of process.env that is read at more than one place of a run
EnvValues ==
    [SHOPIFY_DEV_DASHBOARD_URL : {Str(DashboardUrl), Str(DashboardUrlNoId), Undefined},
     PW_HEADED : {Str(<<"1">>), Undefined},
     SHOPIFY_STORAGE_STATE_JSON : {Str(<<"blob">>), Undefined},
     ENABLE_SCREENSHOTS : {Str(<<" ", "ON">>), Undefined}]

AppUrl == <<"https://app/start">>

\* the version settings of process.env, read once by configureVersionAndRelease;
\* at most one of them is missing
VersionSettings ==
    {e \in [APP_URL : {Str(AppUrl), Undefined},
            REDIRECT_URL : {Str(<<"https://app/oauth">>), Undefined},
            SCOPES_CSV : {Str(<<"read_orders">>), Undefined}] :
        Cardinality({k \in {"APP_URL", "REDIRECT_URL", "SCOPES_CSV"} : Falsy(e[k])}) <= 1}

Stages == <<"CreateResource", "ConfigureAndPublishVersion", "ScrapeCredentials",
            "SelectDistributionMethod", "FillActivationTargetAndGenerateLink">>
StageSet == {Stages[i] : i \in 1..Len(Stages)}

\* an Error: its message, and the values the message is built with
NoError == [kind |-> "none", msg |-> "", url |-> <<>>, detail |-> <<>>]
Err(kind, msg) == [kind |-> kind, msg |-> msg, url |-> <<>>, detail |-> <<>>]
ErrAt(kind, msg, url) == [kind |-> kind, msg |-> msg, url |-> url, detail |-> <<>>]
\* `${what} did not stick. Expected "${expected}", got "${got}"`
Mismatch(msg, expected, got) ==
    [kind |-> "VerificationMismatch", msg |-> msg, url |-> <<>>, detail |-> <<expected, got>>]
NoResult == [present |-> FALSE]
NoScan == [list |-> "none", st |-> <<>>, tried |-> <<>>, hit |-> 0, value |-> <<>>]

FreshBrowser ==
    [state |-> "none", launches |-> 0, closes |-> 0, contexts |-> 0, pages |-> 0,
     opsAfterClose |-> FALSE, blob |-> "none"]
FreshPage ==
    [dashboardUrl |-> Undefined, dashboardId |-> "", appName |-> <<>>, url |-> <<>>,
     typedName |-> <<>>, submits |-> 0, misses |-> 0, appId |-> "", target |-> <<>>]
FreshDist ==
    [target |-> <<>>, url |-> <<>>, gotos |-> 0, chooser |-> FALSE, attempts |-> 0,
     landings |-> <<>>, wall |-> FALSE, done |-> 0, polls |-> 0, elapsed |-> 0,
     reauth |-> "none", saved |-> FALSE, shown |-> <<>>]
FreshHttp == [server |-> "none", phase |-> "idle", status |-> 0, body |-> [kind |-> "none"],
              coreCalls |-> 0, envSTUB |-> Undefined, envDRY_RUN |-> Undefined]
FreshReq == [brand_name |-> Undefined, store_domain |-> Undefined,
             stub |-> Undefined, dry_run |-> Undefined]
FreshOutcome == [state |-> "none", error |-> NoError, result |-> NoResult]
\* wrote: the value typed into the field that is read back; echo: what the field read
\* back; found: what the first look at the page found; clicks: the controls clicked;
\* shot: the screenshot taken before a throw; embed: the embed checkbox as it was left;
\* scopesRb, redirectRb: the readback of the two fields; release: the Release button as
\* it was found; confirm: the confirmation of the release; verify: the look at the fields
\* after the release; observed: the domain input was seen by selectCustomDistribution;
\* reached: the domain input was there when selectCustomDistribution ended
FreshUi ==
    [wrote |-> <<>>, echo |-> <<>>, found |-> "none", clicks |-> <<>>, shot |-> "none",
     embed |-> "none", scopesRb |-> "none", redirectRb |-> "none", release |-> "none",
     confirm |-> "none", verify |-> "none", observed |-> FALSE, reached |-> FALSE]

\* the state of a run that has not started
Idle ==
    /\ pc = "idle"
    /\ inTry = FALSE
    /\ entry = "none"
    /\ req = FreshReq
    /\ http = FreshHttp
    /\ browser = FreshBrowser
    /\ stageLog = <<>>
    /\ stageState = [s \in StageSet |-> "Pending"]
    /\ page = FreshPage
    /\ dist = FreshDist
    /\ scan = NoScan
    /\ creds = [clientId |-> <<>>, clientSecret |-> <<>>]
    /\ link = <<>>
    /\ ui = FreshUi
    /\ pending = FreshOutcome
    /\ outcome = FreshOutcome

\* the calls that overlap in time, none of them started
Runs == {1, 2}
FreshRace == [at |-> [r \in Runs |-> "idle"], loaded |-> [r \in Runs |-> "none"],
              order |-> <<>>]

Init ==
    /\ race = FreshRace
    /\ impl \in {"v2", "v3", "p3"}
    /\ env \in EnvValues
    \* only lines 557-1224 read PW_HEADED, SHOPIFY_STORAGE_STATE_JSON and
    \* ENABLE_SCREENSHOTS
    /\ impl # "v2" => /\ Falsy(env.PW_HEADED)
                      /\ Falsy(env.SHOPIFY_STORAGE_STATE_JSON)
                      /\ Falsy(env.ENABLE_SCREENSHOTS)
    /\ blobFile = OriginalBlob
    /\ Idle

-----------------------------------------------------------------------------
(* Exceptions, stages and browser operations *)

\* a stage that is running when an exception propagates has failed
FailRunning(ss) == [s \in StageSet |-> IF ss[s] = "Running" THEN "Failed" ELSE ss[s]]

\* variant: the error is recorded and the run goes on
RaiseFromSwallowed(ss, err) ==
    /\ stageState' = FailRunning(ss)
    /\ pc' = pc
    /\ pending' = [state |-> "threw", error |-> err, result |-> NoResult]
    /\ outcome' = outcome

\* throw new Error(...): inside the try block control goes to the finally clause,
\* outside of it the rejection reaches the caller at once
RaiseFrom(ss, err) ==
    /\ stageState' = FailRunning(ss)
    /\ IF inTry
       THEN /\ pc' = "finally"
            /\ pending' = [state |-> "threw", error |-> err, result |-> NoResult]
            /\ outcome' = outcome
       ELSE /\ pc' = "done"
            /\ pending' = pending
            /\ outcome' = [state |-> "threw", error |-> err, result |-> NoResult]

Raise(err) == RaiseFrom(stageState, err)

\* a browser operation of the run (navigation, click, read)
Op(b) == [b EXCEPT !.opsAfterClose = @ \/ b.state = "closed"]
Goto(b) == Op(b)

Running(s) == [stageState EXCEPT ![s] = "Running"]
Verified(s) == [stageState EXCEPT ![s] = "Verified"]

\* outcomes of an awaited Playwright call that waits for the UI
UiResults == {"ok", "NavigationTimeout", "ElementNotFound"}

-----------------------------------------------------------------------------
(* POST /shopify/app-generator: src/server.js, and the endpoints of the earlier     *)
(* snapshot, src/unnamed/part_001 (no workflow yet) and src/unnamed/part_002        *)

\* the endpoint a deployment of each iteration of generateShopifyApp is served by
Server == IF impl = "p3" THEN "part_002" ELSE "server.js"

ValidBrand(v) == ~Falsy(v) /\ v.type = "string"
ValidDomainEndsWith(v) == ~Falsy(v) /\ v.type = "string" /\ EndsWith(v.val, <<Suffix>>)

ToLower(tokens) ==
    [i \in 1..Len(tokens) |-> CASE tokens[i] = "TRUE" -> "true"
                                [] tokens[i] = "ON" -> "on"
                                [] OTHER -> tokens[i]]
\* String(v).toLowerCase() === "true"
isTrue(v) == v.type \in {"string", "boolean"} /\ ToLower(v.val) = <<"true">>

\* variant: a true in the environment is not overridden by a false in the body
resolvedStubEnvWins(stub, dry_run, envSTUB, envDRY_RUN) ==
    \/ stub = Bool(TRUE)
    \/ dry_run = Bool(TRUE)
    \/ isTrue(envSTUB)
    \/ isTrue(envDRY_RUN)

resolvedStub(stub, dry_run, envSTUB, envDRY_RUN) ==
    \/ stub = Bool(TRUE)
    \/ dry_run = Bool(TRUE)
    \/ /\ stub # Bool(FALSE)
       /\ dry_run # Bool(FALSE)
       /\ (isTrue(envSTUB) \/ isTrue(envDRY_RUN))

StubAppName(brand) == brand \o <<" X Retention">>

ErrorBody(msg) == [kind |-> "error", error |-> msg]
\* the canned answer; server.js adds mode: "stub", part_001 has no mode
StubBody(mode, brand) ==
    [kind |-> "stub", mode |-> mode, app_name |-> StubAppName(brand),
     client_id |-> <<"stub_client_id">>, client_secret |-> <<"stub_client_secret">>,
     distribution_link |-> <<"stub_distribution_link">>]
Respond(status, body) == [http EXCEPT !.phase = "responded", !.status = status, !.body = body]

\* the synchronous part of the handler: validation, mode resolution, then either a
\* response or the call of generateShopifyApp
HandleRequest ==
    /\ pc = "idle"
    /\ http.phase = "idle"
    /\ Server = "server.js"
    \* server.js exits at start-up when SHOPIFY_DEV_DASHBOARD_URL is missing
    /\ ~Falsy(env.SHOPIFY_DEV_DASHBOARD_URL)
    /\ entry' = "http"
    /\ \E b \in BrandValues, d \in DomainValues, st \in FlagValues, dr \in FlagValues,
          es \in EnvFlagValues, ed \in EnvFlagValues :
         IF ~ValidBrand(b)
         THEN /\ req' = [FreshReq EXCEPT !.brand_name = b, !.store_domain = d]
              /\ http' = [Respond(400, ErrorBody("brand_name is required"))
                             EXCEPT !.server = Server]
              /\ pc' = "done"
         ELSE IF ~ValidDomainEndsWith(d)
         THEN /\ req' = [FreshReq EXCEPT !.brand_name = b, !.store_domain = d]
              /\ http' = [Respond(400, ErrorBody("store_domain must end in myshopify.com"))
                             EXCEPT !.server = Server]
              /\ pc' = "done"
         ELSE /\ req' = [brand_name |-> b, store_domain |-> d, stub |-> st, dry_run |-> dr]
              /\ IF resolvedStub(st, dr, es, ed)
                 THEN /\ http' = [Respond(200, StubBody("stub", b.val))
                                    EXCEPT !.server = Server, !.envSTUB = es, !.envDRY_RUN = ed]
                      /\ pc' = "done"
                 ELSE /\ http' = [http EXCEPT !.server = Server, !.phase = "core",
                                              !.coreCalls = @ + 1,
                                              !.envSTUB = es, !.envDRY_RUN = ed]
                      /\ pc' = "validate"
    /\ UNCHANGED <<race, impl, env, blobFile, inTry, browser, stageLog, stageState, page,
                   dist, scan, creds, link, pending, outcome, ui>>

\* store_domain.includes("myshopify.com")
ValidDomainIncludes(v) == ~Falsy(v) /\ v.type = "string" /\ Includes(v.val, <<Suffix>>)

\* the handler of part_002: validation, then the call of generateShopifyApp
HandleRequestPart002 ==
    /\ pc = "idle"
    /\ http.phase = "idle"
    /\ Server = "part_002"
    \* part_002 exits at start-up when SHOPIFY_DEV_DASHBOARD_URL is missing
    /\ ~Falsy(env.SHOPIFY_DEV_DASHBOARD_URL)
    /\ entry' = "http"
    /\ \E b \in BrandValues, d \in DomainValues \cup {Str(LookalikeDomain)} :
         /\ req' = [FreshReq EXCEPT !.brand_name = b, !.store_domain = d]
         /\ IF ~ValidBrand(b)
            THEN /\ http' = [Respond(400, ErrorBody("brand_name is required"))
                                EXCEPT !.server = Server]
                 /\ pc' = "done"
            ELSE IF ~ValidDomainIncludes(d)
            THEN /\ http' = [Respond(400, ErrorBody("store_domain must include myshopify.com"))
                                EXCEPT !.server = Server]
                 /\ pc' = "done"
            ELSE /\ http' = [http EXCEPT !.server = Server, !.phase = "core",
                                         !.coreCalls = @ + 1]
                 /\ pc' = "validate"
    /\ UNCHANGED <<race, impl, env, blobFile, inTry, browser, stageLog, stageState, page,
                   dist, scan, creds, link, pending, outcome, ui>>

\* the handler of part_001: validation, then the canned answer; this endpoint has no
\* workflow behind it
HandleRequestPart001 ==
    /\ pc = "idle"
    /\ http.phase = "idle"
    /\ impl = "p3"
    /\ entry' = "http"
    /\ \E b \in BrandValues, d \in DomainValues \cup {Str(LookalikeDomain)} :
         /\ req' = [FreshReq EXCEPT !.brand_name = b, !.store_domain = d]
         /\ http' = [(IF ~ValidBrand(b)
                      THEN Respond(400, ErrorBody("brand_name is required"))
                      ELSE IF ~ValidDomainEndsWith(d)
                      THEN Respond(400, ErrorBody("store_domain must end in myshopify.com"))
                      ELSE Respond(200, StubBody("none", b.val)))
                        EXCEPT !.server = "part_001"]
    /\ pc' = "done"
    /\ UNCHANGED <<race, impl, env, blobFile, inTry, browser, stageLog, stageState, page,
                   dist, scan, creds, link, pending, outcome, ui>>

\* generateShopifyApp called by another caller than the endpoint
CallDirect ==
    /\ pc = "idle"
    /\ http.phase = "idle"
    /\ entry' = "direct"
    /\ \E b \in BrandValues, d \in DomainValues :
         req' = [FreshReq EXCEPT !.brand_name = b, !.store_domain = d]
    /\ pc' = "validate"
    /\ UNCHANGED <<race, impl, env, blobFile, http, inTry, browser, stageLog, stageState,
                   page, dist, scan, creds, link, pending, outcome, ui>>

\* the endpoint's answer once generateShopifyApp has settled
ResultBody(r) == [kind |-> "result", mode |-> "real", app_name |-> r.app_name,
                  client_id |-> r.client_id, client_secret |-> r.client_secret,
                  distribution_link |-> r.distribution_link, note |-> r.note,
                  store_domain |-> r.store_domain]

\* variant: a failed run is answered with what had been scraped
CoreResponsePartial(o) ==
    IF o.state = "returned" THEN Respond(200, ResultBody(o.result))
    ELSE Respond(500, [kind |-> "error", error |-> o.error.msg,
                       client_id |-> creds.clientId, client_secret |-> creds.clientSecret])

\* part_002: res.status(200).json({ ok: true, result, ...result })
EnvelopeBody(r) ==
    [kind |-> "envelope", ok |-> TRUE, result |-> r, app_name |-> r.app_name,
     client_id |-> r.client_id, client_secret |-> r.client_secret,
     distribution_link |-> r.distribution_link, note |-> r.note,
     store_domain |-> r.store_domain]

\* part_002: res.status(500).json({ error, name, ts })
DatedErrorBody(msg) == [kind |-> "error", error |-> msg, name |-> "Error", ts |-> "now"]

CoreResponse(o) ==
    LET msg == IF o.error.msg = "" THEN "Unknown error" ELSE o.error.msg
    IN IF http.server = "part_002"
       THEN IF o.state = "returned" THEN Respond(200, EnvelopeBody(o.result))
            ELSE Respond(500, DatedErrorBody(msg))
       ELSE IF o.state = "returned" THEN Respond(200, ResultBody(o.result))
            ELSE Respond(500, ErrorBody(msg))

SendResponse ==
    /\ pc = "done"
    /\ entry = "http"
    /\ http.phase = "core"
    /\ http' = CoreResponse(outcome)
    /\ UNCHANGED <<race, impl, env, blobFile, entry, req, runVars>>

-----------------------------------------------------------------------------
(* generateShopifyApp: entry, browser, context, page *)

\* variant: the separator of the stub response
AppNameUpperX(brand) == brand \o <<" X Retention">>

AppName(brand) == brand \o <<" x Retention">>

\* variant: the store_domain check is left out
ValidationErrorBrandOnly(dashboardUrl, brand_name, store_domain) ==
    IF Falsy(dashboardUrl)
    THEN Err("ConfigurationError", "Missing env var: SHOPIFY_DEV_DASHBOARD_URL")
    ELSE IF Falsy(brand_name) \/ brand_name.type # "string"
    THEN Err("ValidationError", "brand_name is required")
    ELSE NoError

\* the checks at the top of generateShopifyApp; NoError when they pass
ValidationError(dashboardUrl, brand_name, store_domain) ==
    IF Falsy(dashboardUrl)
    THEN Err("ConfigurationError", "Missing env var: SHOPIFY_DEV_DASHBOARD_URL")
    ELSE IF Falsy(brand_name) \/ brand_name.type # "string"
    THEN Err("ValidationError", "brand_name is required")
    ELSE IF Falsy(store_domain) \/ store_domain.type # "string"
    THEN Err("ValidationError", "store_domain is required")
    ELSE NoError

Validate ==
    /\ pc = "validate"
    /\ req' = [req EXCEPT !.stub = Undefined, !.dry_run = Undefined]
    /\ http' = [http EXCEPT !.envSTUB = Undefined, !.envDRY_RUN = Undefined]
    /\ LET e == ValidationError(env.SHOPIFY_DEV_DASHBOARD_URL, req.brand_name, req.store_domain)
       IN IF e # NoError
          THEN /\ Raise(e)
               /\ page' = page
          ELSE /\ page' = [page EXCEPT !.dashboardUrl = env.SHOPIFY_DEV_DASHBOARD_URL,
                                       !.dashboardId = dashboardIdFromUrl(env.SHOPIFY_DEV_DASHBOARD_URL),
                                       !.appName = AppName(req.brand_name.val)]
               /\ pc' = "launch"
               /\ UNCHANGED <<stageState, pending, outcome>>
    /\ UNCHANGED <<race, impl, env, blobFile, entry, inTry, browser, stageLog, dist, scan,
                   creds, link, ui>>

\* chromium.launch
Launch ==
    /\ pc = "launch"
    /\ \E ok \in BOOLEAN :
         IF ok
         THEN /\ browser' = [browser EXCEPT !.state = "open", !.launches = @ + 1]
              /\ pc' = "newContext"
              /\ UNCHANGED <<stageState, pending, outcome>>
         ELSE /\ Raise(Err("LaunchFailed", "browserType.launch: failed to launch"))
              /\ browser' = browser
    /\ UNCHANGED <<race, impl, env, blobFile, entry, req, http, inTry, stageLog, page, dist,
                   scan, creds, link, ui>>

\* getStorageStatePath: with SHOPIFY_STORAGE_STATE_JSON set, the JSON of the
\* environment is written to the path that is returned
getStorageStatePath(e, file) ==
    IF Falsy(e.SHOPIFY_STORAGE_STATE_JSON) THEN file ELSE OriginalBlob

\* the file the context is created from
StorageFileAtStart(file) ==
    IF impl = "v2" THEN getStorageStatePath(env, file) ELSE file

\* browser.newContext({ storageState }) -- before the try block
NewContext ==
    /\ pc = "newContext"
    /\ blobFile' = StorageFileAtStart(blobFile)
    /\ \E ok \in BOOLEAN :
         IF ok
         THEN /\ browser' = [browser EXCEPT !.contexts = @ + 1, !.blob = blobFile']
              /\ pc' = "newPage"
              /\ UNCHANGED <<stageState, pending, outcome>>
         ELSE /\ Raise(Err("ContextFailed", "browser.newContext: cannot read storage state"))
              /\ browser' = browser
    /\ UNCHANGED <<race, impl, env, entry, req, http, inTry, stageLog, page, dist, scan,
                   creds, link, ui>>

\* context.newPage() -- before the try block; the try block is entered after it
NewPage ==
    /\ pc = "newPage"
    /\ \E ok \in BOOLEAN :
         IF ok
         THEN /\ browser' = [browser EXCEPT !.pages = @ + 1]
              /\ pc' = "createOpen"
              /\ inTry' = TRUE
              /\ UNCHANGED <<stageState, pending, outcome>>
         ELSE /\ Raise(Err("PageFailed", "context.newPage: failed"))
              /\ browser' = browser
              /\ inTry' = inTry
    /\ UNCHANGED <<race, impl, env, blobFile, entry, req, http, stageLog, page, dist, scan,
                   creds, link, ui>>

-----------------------------------------------------------------------------
(* Candidate scans *)

NumSubmitCands == 3

\* what the page holds for one candidate locator
CredStatuses == {"absent", "throws", "empty", "value"}
SubmitStatuses == {"absent", "hidden", "disabled", "ok"}
DomainStatuses == {"absent", "throws", "present"}

\* the text of the element each candidate locator points at
IdTexts == << <<"cid-1">>, <<" ", "cid-2">>, <<"cid-3", "\n">>, <<"cid", "\t", " ", "4">> >>
SecretTexts == << <<"sec-1">>, <<"sec-2", " ">>, <<"\n", "sec-3">>, <<"sec", " ", " ", "4">> >>
BlankText == <<" ">>

\* variant: no break, the last readable value is kept
RECURSIVE CredScanNoBreak(_, _, _, _, _)
CredScanNoBreak(texts, st, i, tried, value) ==
    IF i > Len(st)
    THEN [tried |-> tried,
          hit |-> IF \E j \in 1..Len(st) : st[j] = "value"
                  THEN CHOOSE j \in 1..Len(st) :
                         st[j] = "value" /\ \A m \in 1..Len(st) : st[m] = "value" => m <= j
                  ELSE 0,
          value |-> value]
    ELSE IF st[i] = "absent" \/ st[i] = "throws"
         THEN CredScanNoBreak(texts, st, i + 1, Append(tried, i), value)
         ELSE LET v == clean(IF st[i] = "empty" THEN BlankText ELSE texts[i])
              IN CredScanNoBreak(texts, st, i + 1, Append(tried, i), v)

\* variant: an element with an empty value ends the scan
RECURSIVE CredScanStopOnEmpty(_, _, _, _, _)
CredScanStopOnEmpty(texts, st, i, tried, value) ==
    IF i > Len(st) THEN [tried |-> tried, hit |-> 0, value |-> value]
    ELSE IF st[i] = "absent" \/ st[i] = "throws"
         THEN CredScanStopOnEmpty(texts, st, i + 1, Append(tried, i), value)
         ELSE LET v == clean(IF st[i] = "empty" THEN BlankText ELSE texts[i])
              IN [tried |-> Append(tried, i), hit |-> IF v # <<>> THEN i ELSE 0, value |-> v]

\* for (const c of idCandidates) { try { if (count === 0) continue; value = clean(...);
\* if (value) break; } catch {} }
RECURSIVE CredScan(_, _, _, _, _)
CredScan(texts, st, i, tried, value) ==
    IF i > Len(st) THEN [tried |-> tried, hit |-> 0, value |-> value]
    ELSE IF st[i] = "absent" \/ st[i] = "throws"
         THEN CredScan(texts, st, i + 1, Append(tried, i), value)
         ELSE LET v == clean(IF st[i] = "empty" THEN BlankText ELSE texts[i])
              IN IF v # <<>>
                 THEN [tried |-> Append(tried, i), hit |-> i, value |-> v]
                 ELSE CredScan(texts, st, i + 1, Append(tried, i), v)

\* for (const cand of submitCreateCandidates) { try { if (count === 0) continue;
\* waitFor visible; if (disabled) continue; submitCreate = cand; break; } catch {} }
RECURSIVE SubmitScan(_, _, _)
SubmitScan(st, i, tried) ==
    IF i > Len(st) THEN [tried |-> tried, hit |-> 0]
    ELSE IF st[i] = "ok"
         THEN [tried |-> Append(tried, i), hit |-> i]
         ELSE SubmitScan(st, i + 1, Append(tried, i))

\* for (const cand of domainCandidates) { try { if (count > 0) { domainInput = cand;
\* break; } } catch {} }
RECURSIVE DomainScan(_, _, _)
DomainScan(st, i, tried) ==
    IF i > Len(st) THEN [tried |-> tried, hit |-> 0]
    ELSE IF st[i] = "present"
         THEN [tried |-> Append(tried, i), hit |-> i]
         ELSE DomainScan(st, i + 1, Append(tried, i))

DomainCandidates == <<"label", "placeholder", "firstTextInput">>

\* the last scan of a candidate list: the page it ran against, the candidates queried, the hit
ScanRecord(list, st, r) ==
    [list |-> list, st |-> st, tried |-> r.tried, hit |-> r.hit,
     value |-> IF "value" \in DOMAIN r THEN r.value ELSE <<>>]

-----------------------------------------------------------------------------
(* Stage 1: CreateResource *)

CreateOpen ==
    /\ pc = "createOpen"
    /\ stageLog' = Append(stageLog, Stages[1])
    /\ browser' = Goto(browser)
    /\ \E r \in UiResults :
         IF r = "ok"
         THEN /\ page' = [page EXCEPT !.url = AppsNewUrl, !.typedName = page.appName]
              /\ stageState' = Running(Stages[1])
              /\ pc' = "createSubmit"
              /\ UNCHANGED <<pending, outcome>>
         ELSE /\ RaiseFrom(Running(Stages[1]), ErrAt(r, "create form did not open", page.url))
              /\ page' = page
    /\ UNCHANGED <<race, impl, env, blobFile, entry, req, http, inTry, dist, scan, creds, link, ui>>

CreateSubmit ==
    /\ pc = "createSubmit"
    /\ browser' = Op(browser)
    /\ IF impl = "v2"
       THEN \E st \in [1..NumSubmitCands -> SubmitStatuses] :
              LET r == SubmitScan(st, 1, <<>>)
              IN /\ scan' = ScanRecord("submitCreate", <<>>, r)
                 /\ IF r.hit = 0
                    THEN Raise(ErrAt("ElementNotFound",
                                     "Could not find a visible/enabled Create submit button on",
                                     page.url))
                    ELSE /\ pc' = "createLanded"
                         /\ UNCHANGED <<stageState, pending, outcome>>
       ELSE /\ scan' = scan
            /\ \E r \in {"ok", "ElementNotFound"} :
                 IF r = "ok"
                 THEN /\ pc' = "createLanded"
                      /\ UNCHANGED <<stageState, pending, outcome>>
                 ELSE Raise(ErrAt(r, "submit button not attached", page.url))
    /\ page' = IF pc' = "createLanded" THEN [page EXCEPT !.submits = @ + 1] ELSE page
    /\ UNCHANGED <<race, impl, env, blobFile, entry, req, http, inTry, stageLog, dist, creds,
                   link, ui>>

\* waitForURL(/\/apps\/\d+/) then extractAppId(page.url())
CreateLandings == {AppDetailUrl, AppDetailSubUrl, AppDetailOddUrl, AppsNewUrl}

CreateLanded ==
    /\ pc = "createLanded"
    /\ impl \in {"v2", "p3"}
    /\ browser' = Op(browser)
    /\ scan' = NoScan
    /\ \E u \in CreateLandings :
         IF ~MatchesAppsDigits(u)
         THEN /\ Raise(ErrAt("NavigationTimeout", "page.waitForURL: Timeout exceeded", u))
              /\ page' = [page EXCEPT !.url = u]
         ELSE IF extractAppId(u) = ""
         THEN /\ Raise(ErrAt("AmbiguousUiState",
                             "Create succeeded but couldn't parse appId from URL", u))
              /\ page' = [page EXCEPT !.url = u]
         ELSE /\ page' = [page EXCEPT !.url = u, !.appId = extractAppId(u)]
              /\ stageState' = Verified(Stages[1])
              /\ pc' = "configureCheck"
              /\ UNCHANGED <<pending, outcome>>
    /\ UNCHANGED <<race, impl, env, blobFile, entry, req, http, inTry, stageLog, dist, creds,
                   link, ui>>

MaxListAttempts == 10

\* hrefs.find((h) => /\/apps\/\d+/.test(h)): the first link of the creation page to
\* an app, whichever app it is
directHref(direct) == IF direct = "opens" THEN AppDetailUrl ELSE OtherAppUrl

\* lines 1225-1867: waitForURL(/\/apps\/\d+/), a second submit button is waited for and
\* clicked, then ensureCreatedAppDetailPage up to the navigation to the apps list
CreateLandedV3 ==
    /\ pc = "createLanded"
    /\ impl = "v3"
    /\ browser' = Op(browser)
    /\ scan' = NoScan
    /\ \E u \in CreateLandings, second \in {"ok", "ElementNotFound"},
          direct \in {"none", "opens", "opensOther", "throws"},
          list \in {"ok", "NavigationTimeout"} :
         IF ~MatchesAppsDigits(u)
         THEN /\ Raise(ErrAt("NavigationTimeout", "page.waitForURL: Timeout exceeded", u))
              /\ page' = [page EXCEPT !.url = u]
         ELSE IF second # "ok"
         THEN /\ Raise(ErrAt(second, "locator.waitFor: Timeout exceeded", u))
              /\ page' = [page EXCEPT !.url = u]
         ELSE IF extractAppId(u) # ""
         THEN /\ page' = [page EXCEPT !.url = u, !.submits = @ + 1, !.appId = extractAppId(u)]
              /\ stageState' = Verified(Stages[1])
              /\ pc' = "configureCheck"
              /\ UNCHANGED <<pending, outcome>>
         ELSE IF direct \in {"opens", "opensOther"}
         THEN /\ page' = [page EXCEPT !.url = directHref(direct), !.submits = @ + 1,
                                       !.appId = extractAppId(directHref(direct))]
              /\ stageState' = Verified(Stages[1])
              /\ pc' = "configureCheck"
              /\ UNCHANGED <<pending, outcome>>
         ELSE IF list # "ok"
         THEN /\ Raise(ErrAt(list, "page.goto: Timeout exceeded", page.dashboardUrl.val))
              /\ page' = [page EXCEPT !.url = u, !.submits = @ + 1]
         ELSE /\ page' = [page EXCEPT !.url = page.dashboardUrl.val, !.submits = @ + 1]
              /\ pc' = "ensureList"
              /\ UNCHANGED <<stageState, pending, outcome>>
    /\ UNCHANGED <<race, impl, env, blobFile, entry, req, http, inTry, stageLog, dist, creds,
                   link, ui>>

\* variant: the loop runs while attempt <= 10 after the increment
listAttemptsLeftOneMore(n) == n <= MaxListAttempts

\* the condition of  for (let attempt = 1; attempt <= 10; attempt++)  once n attempts
\* have been made
listAttemptsLeft(n) == n < MaxListAttempts

\* where a click on getByRole("link", { name: new RegExp(appName, "i") }).first() can
\* lead: to the new app, or to the first app whose link name holds appName
ListLandings == {AppDetailUrl, AppDetailOddUrl, OtherAppUrl}

\* one iteration of  for (let attempt = 1; attempt <= 10; attempt++)  of
\* ensureCreatedAppDetailPage: look for the link, open it, else reload the list
EnsureListed ==
    /\ pc = "ensureList"
    /\ impl = "v3"
    /\ browser' = Op(browser)
    /\ \E byName \in BOOLEAN, u \in ListLandings, reload \in {"ok", "NavigationTimeout"} :
         IF byName /\ extractAppId(u) # ""
         THEN /\ page' = [page EXCEPT !.url = u, !.appId = extractAppId(u)]
              /\ stageState' = Verified(Stages[1])
              /\ pc' = "configureCheck"
              /\ UNCHANGED <<pending, outcome>>
         ELSE LET at == IF byName THEN u ELSE page.url
                  n == page.misses + 1
              IN /\ page' = [page EXCEPT !.url = at, !.misses = n]
                 /\ IF reload # "ok"
                    THEN Raise(ErrAt(reload, "page.reload: Timeout exceeded", at))
                    ELSE IF listAttemptsLeft(n)
                    THEN /\ pc' = "ensureList"
                         /\ UNCHANGED <<stageState, pending, outcome>>
                    ELSE Raise(ErrAt("ResourceNotListed",
                                     "Created app did not appear in apps list after retries",
                                     at))
    /\ UNCHANGED <<race, impl, env, blobFile, entry, req, http, inTry, stageLog, dist, scan,
                   creds, link, ui>>

-----------------------------------------------------------------------------
(* Screenshots and readback *)

\* String(process.env.ENABLE_SCREENSHOTS || "").trim().toLowerCase() is 1, true, yes or on
screenshotsEnabled(e) ==
    /\ ~Falsy(e.ENABLE_SCREENSHOTS)
    /\ ToLower(Trim(e.ENABLE_SCREENSHOTS.val)) \in {<<"1">>, <<"true">>, <<"yes">>, <<"on">>}

\* what page.screenshot does when it is called
Captures == {"ok", "throws"}

\* await page.screenshot(...): an exception of the capture propagates
pageScreenshot(cap) == IF cap = "ok" THEN "captured" ELSE "threw"

\* safeScreenshot: try { await page.screenshot(...) } catch {}; in lines 557-1224 a
\* no-op unless ENABLE_SCREENSHOTS is on
safeScreenshot(e, cap) ==
    IF impl = "v2" /\ ~screenshotsEnabled(e) THEN "none"
    ELSE IF cap = "ok" THEN "captured" ELSE "failed"

ScreenshotError == Err("ScreenshotFailed", "page.screenshot: Target closed")

\* what a field can read back after `intended` was typed into it
Echoes(intended) ==
    {intended, <<" ">> \o intended \o <<"\n">>, <<"about:blank">>, <<" ", "about:blank">>, <<>>}

\* const appUrlReadback = (await appUrlInput.inputValue()).trim();
\* if (appUrlReadback !== appUrl) throw new Error(`... got "${appUrlReadback}"`)
appUrlMismatch(intended, echo) ==
    IF Trim(echo) # intended
    THEN Mismatch("App URL did not stick", intended, Trim(echo))
    ELSE NoError

\* variant: the readback is compared as it is
domainMismatchNoTrim(intended, echo) ==
    IF echo # intended THEN Mismatch("Domain did not stick", intended, echo) ELSE NoError

\* if (typed.trim() !== store_domain) throw new Error(`... got "${typed}"`)
domainMismatch(intended, echo) ==
    IF Trim(echo) # intended THEN Mismatch("Domain did not stick", intended, echo) ELSE NoError

-----------------------------------------------------------------------------
(* Stage 2: ConfigureAndPublishVersion *)

\* the checks at the top of configureVersionAndRelease; NoError when they pass
ConfigurationError(e, dashboardId) ==
    IF Falsy(e.APP_URL) THEN Err("ConfigurationError", "Missing env var: APP_URL")
    ELSE IF Falsy(e.REDIRECT_URL) THEN Err("ConfigurationError", "Missing env var: REDIRECT_URL")
    ELSE IF Falsy(e.SCOPES_CSV) THEN Err("ConfigurationError", "Missing env var: SCOPES_CSV")
    ELSE IF dashboardId = ""
    THEN Err("ConfigurationError", "Could not parse dashboard id from SHOPIFY_DEV_DASHBOARD_URL")
    ELSE NoError

ConfigureCheck ==
    /\ pc = "configureCheck"
    /\ stageLog' = Append(stageLog, Stages[2])
    /\ page' = [page EXCEPT !.misses = 0]
    /\ \E settings \in VersionSettings :
         LET e == ConfigurationError(settings, page.dashboardId)
         IN IF e # NoError
            THEN RaiseFrom(Running(Stages[2]), e)
            ELSE /\ stageState' = Running(Stages[2])
                 /\ pc' = "configureForm"
                 /\ UNCHANGED <<pending, outcome>>
    /\ UNCHANGED <<race, impl, env, blobFile, entry, req, http, inTry, browser, dist, scan,
                   creds, link, ui>>

\* variant: the form of the dashboard, not of the app
VersionsNewUrlOfDashboard(dashboardId, appId) ==
    <<"https://", "dev.shopify.com", "/dashboard/", dashboardId, "/apps/", dashboardId,
      "/versions/new">>

VersionsNewUrl(dashboardId, appId) ==
    <<"https://", "dev.shopify.com", "/dashboard/", dashboardId, "/apps/", appId, "/versions/new">>

\* goto versions/new, type the app URL, read it back
ConfigureAppUrl ==
    /\ pc = "configureForm"
    /\ browser' = Goto(browser)
    /\ page' = [page EXCEPT !.url = VersionsNewUrl(page.dashboardId, page.appId),
                             !.target = VersionsNewUrl(page.dashboardId, page.appId)]
    /\ \E r \in UiResults, echo \in Echoes(AppUrl), cap \in Captures :
         IF r # "ok"
         THEN /\ Raise(ErrAt(r, "version form", page'.url))
              /\ ui' = ui
         ELSE LET e == appUrlMismatch(AppUrl, echo)
                  shot == IF impl = "v2" THEN safeScreenshot(env, cap) ELSE pageScreenshot(cap)
              IN IF e = NoError
                 THEN /\ ui' = [ui EXCEPT !.wrote = AppUrl, !.echo = echo]
                      /\ pc' = "configureEmbed"
                      /\ UNCHANGED <<stageState, pending, outcome>>
                 ELSE /\ ui' = [ui EXCEPT !.wrote = AppUrl, !.echo = echo, !.shot = shot]
                      /\ Raise(IF shot = "threw" THEN ScreenshotError ELSE e)
    /\ UNCHANGED <<race, impl, env, blobFile, entry, req, http, inTry, stageLog, dist, scan,
                   creds, link>>

EmbedStates == {"absent", "checked", "unchecked"}

\* the embed checkbox: not found; found unchecked; found checked and clicked, after
\* which it is unchecked ("toggled") or still checked ("stuck")
embedAfter(box, after) ==
    CASE box = "absent" -> "absent"
      [] box = "unchecked" -> "unchecked"
      [] OTHER -> IF after = "unchecked" THEN "toggled" ELSE "stuck"

\* if ((await embedCheckbox.count()) === 0) throw ...; if (checked) click;
\* console.log("Embed checked after:", await embedCheckbox.isChecked())
embedError(state, url) ==
    IF state = "absent"
    THEN ErrAt("ElementNotFound", "Could not find Embed app in Shopify admin checkbox", url)
    ELSE NoError

\* the embed checkbox
ConfigureEmbed ==
    /\ pc = "configureEmbed"
    /\ browser' = Op(browser)
    /\ \E box \in EmbedStates, after \in {"checked", "unchecked"}, cap \in Captures :
         LET state == embedAfter(box, after)
             e == embedError(state, page.url)
             shot == IF impl = "v2" THEN safeScreenshot(env, cap) ELSE pageScreenshot(cap)
         IN /\ box # "checked" => after = "unchecked"
            /\ e = NoError => cap = "ok"
            /\ IF e # NoError
               THEN /\ ui' = [ui EXCEPT !.embed = state, !.shot = shot]
                    /\ Raise(IF shot = "threw" THEN ScreenshotError ELSE e)
               ELSE /\ ui' = [ui EXCEPT !.embed = state,
                                        !.clicks = IF box = "checked" THEN <<"uncheckEmbed">>
                                                   ELSE <<>>]
                    /\ pc' = "configureFields"
                    /\ UNCHANGED <<stageState, pending, outcome>>
    /\ UNCHANGED <<race, impl, env, blobFile, entry, req, http, inTry, stageLog, page, dist,
                   scan, creds, link>>

\* what a field of the form does when it is written and read back
FieldStates == {"missing", "same", "differs", "unreadable"}

\* variant: a readback that differs or fails is an error
fieldReadbackFatal(name, rb) ==
    IF rb \in {"differs", "unreadable"}
    THEN Mismatch("Field did not stick", <<name>>, <<rb>>)
    ELSE NoError

\* const scopesRb = (await scopesField.inputValue().catch(() => "")).trim(); the value
\* is logged and not compared
fieldReadback(name, rb) == NoError

\* await field.waitFor({ timeout: 30_000 }) ... fill ... readback
fieldError(name, st, url) ==
    IF st = "missing"
    THEN ErrAt("ElementNotFound", "locator.waitFor: Timeout exceeded", url)
    ELSE fieldReadback(name, st)

\* what is on record of a field: lines 1225-1867 do not read it back
fieldRecord(st) == IF impl = "v3" /\ st # "missing" THEN "notRead" ELSE st

\* the scopes and the redirect URLs, with the screenshot of the form: part_003 takes it
\* before the two fields, lines 1225-1867 after them, both with page.screenshot
ConfigureFields ==
    /\ pc = "configureFields"
    /\ browser' = Op(browser)
    /\ \E scopes \in FieldStates, redirect \in FieldStates, cap \in Captures :
         LET shot == IF impl = "v2" THEN safeScreenshot(env, cap) ELSE pageScreenshot(cap)
             es == fieldError("scopes", scopes, page.url)
             er == fieldError("redirect", redirect, page.url)
             before == impl = "p3" /\ shot = "threw"
             e == IF before THEN ScreenshotError
                  ELSE IF es # NoError THEN es
                  ELSE IF er # NoError THEN er
                  ELSE IF shot = "threw" THEN ScreenshotError
                  ELSE NoError
         IN \* choices that the code does not get to look at are not drawn
            /\ before => scopes = "same" /\ redirect = "same"
            /\ ~before /\ es # NoError => redirect = "same"
            /\ impl = "v3" => scopes \in {"missing", "same"} /\ redirect \in {"missing", "same"}
            /\ (es # NoError \/ er # NoError) /\ impl # "p3" => cap = "ok"
            /\ ui' = [ui EXCEPT !.scopesRb = IF before THEN @ ELSE fieldRecord(scopes),
                                !.redirectRb = IF before \/ es # NoError THEN @
                                               ELSE fieldRecord(redirect),
                                !.shot = IF e = ScreenshotError THEN shot ELSE @]
            /\ IF e = NoError
               THEN /\ pc' = "configureRelease"
                    /\ UNCHANGED <<stageState, pending, outcome>>
               ELSE Raise(e)
    /\ UNCHANGED <<race, impl, env, blobFile, entry, req, http, inTry, stageLog, page, dist,
                   scan, creds, link>>

ReleaseStates == {"absent", "disabled", "unreadable", "enabled"}

\* variant: a state that cannot be read counts as enabled
releaseDisabledCatchFalse(button) == button = "disabled"

\* const disabled = await releaseBtn.isDisabled().catch(() => true); in lines 1225-1867
\* waitForFunction(() => !!b && !b.disabled) does not resolve
releaseDisabled(button) == button \in {"disabled", "unreadable"}

\* the Release button, the confirmation, the look at the released version
ConfigureRelease ==
    /\ pc = "configureRelease"
    /\ browser' = Op(browser)
    /\ \E button \in ReleaseStates, confirm \in BOOLEAN, verify \in {"read", "unreadable"},
          cap \in Captures :
         IF button = "absent"
         THEN /\ confirm /\ verify = "read" /\ cap = "ok"
              /\ ui' = [ui EXCEPT !.release = button]
              /\ Raise(ErrAt("ElementNotFound", "locator.waitFor: Timeout exceeded", page.url))
         ELSE IF releaseDisabled(button)
         THEN /\ confirm /\ verify = "read"
              /\ impl = "v3" => cap = "ok"
              /\ ui' = [ui EXCEPT !.release = button,
                                  !.shot = IF impl = "v3" THEN @ ELSE safeScreenshot(env, cap)]
              /\ Raise(IF impl = "v3"
                       THEN ErrAt("NavigationTimeout", "page.waitForFunction: Timeout exceeded",
                                  page.url)
                       ELSE ErrAt("ReleaseDisabled",
                                  "Release button is disabled (fields likely not valid / not saved).",
                                  page.url))
         ELSE IF ~confirm /\ impl # "v2"
         THEN /\ verify = "read" /\ cap = "ok"
              /\ ui' = [ui EXCEPT !.release = button, !.confirm = "absent",
                                  !.clicks = Append(@, "release")]
              /\ Raise(ErrAt("ElementNotFound", "locator.waitFor: Timeout exceeded", page.url))
         ELSE LET clicks == IF confirm THEN <<"release", "confirmRelease">> ELSE <<"release">>
                  \* lines 1225-1867 end with page.screenshot, the others with safeScreenshot
                  shot == IF impl = "v3" THEN pageScreenshot(cap) ELSE safeScreenshot(env, cap)
                  seen == [ui EXCEPT !.release = button,
                                     !.confirm = IF confirm THEN "present" ELSE "absent",
                                     !.verify = verify,
                                     !.clicks = @ \o clicks]
              IN IF shot = "threw"
                 THEN /\ ui' = [seen EXCEPT !.shot = shot]
                      /\ Raise(ScreenshotError)
                 ELSE /\ ui' = seen
                      /\ stageState' = Verified(Stages[2])
                      /\ pc' = "scrapeOpen"
                      /\ UNCHANGED <<pending, outcome>>
    /\ UNCHANGED <<race, impl, env, blobFile, entry, req, http, inTry, stageLog, page, dist,
                   scan, creds, link>>

-----------------------------------------------------------------------------
(* Stage 3: ScrapeCredentials *)

SettingsUrl(dashboardId, appId) ==
    <<"https://", "dev.shopify.com", "/dashboard/", dashboardId, "/apps/", appId, "/settings">>

\* where page.goto(settingsUrl) can end: the settings view, or the accounts login
\* when the session is no longer accepted
SettingsLandings(target) == {target, LoginUrl}

\* what the candidate locators can find on the page: the accounts pages hold none of
\* the texts the candidates look for
CredPages(texts, url) ==
    IF Includes(url, <<AccountsHost>>)
    THEN {[i \in 1..Len(texts) |-> "absent"]}
    ELSE [1..Len(texts) -> CredStatuses]

\* the version form is left behind; page.url() is only logged
ScrapeOpen ==
    /\ pc = "scrapeOpen"
    /\ stageLog' = Append(stageLog, Stages[3])
    /\ browser' = Goto(browser)
    /\ ui' = FreshUi
    /\ \E r \in {"ok", "NavigationTimeout"} :
         IF r = "ok"
         THEN /\ stageState' = Running(Stages[3])
              /\ \E u \in SettingsLandings(SettingsUrl(page.dashboardId, page.appId)) :
                   page' = [page EXCEPT !.url = u,
                                        !.target = SettingsUrl(page.dashboardId, page.appId)]
              /\ pc' = "scrapeId"
              /\ UNCHANGED <<pending, outcome>>
         ELSE /\ RaiseFrom(Running(Stages[3]),
                           ErrAt(r, "page.goto: Timeout exceeded",
                                 SettingsUrl(page.dashboardId, page.appId)))
              /\ page' = page
    /\ UNCHANGED <<race, impl, env, blobFile, entry, req, http, inTry, dist, scan, creds, link>>

\* scrapeClientIdAndSecret, first loop
ScrapeClientId ==
    /\ pc = "scrapeId"
    /\ browser' = Op(browser)
    /\ \E st \in CredPages(IdTexts, page.url) :
         LET r == CredScan(IdTexts, st, 1, <<>>, <<>>)
         IN /\ scan' = ScanRecord("clientId", <<>>, r)
            /\ creds' = [creds EXCEPT !.clientId = r.value]
    /\ pc' = "scrapeSecret"
    /\ UNCHANGED <<race, impl, env, blobFile, entry, req, http, inTry, stageLog, stageState,
                   page, dist, link, pending, outcome, ui>>

\* scrapeClientIdAndSecret, reveal and second loop
ScrapeClientSecret ==
    /\ pc = "scrapeSecret"
    /\ browser' = Op(browser)
    /\ \E st \in CredPages(SecretTexts, page.url) :
         LET r == CredScan(SecretTexts, st, 1, <<>>, <<>>)
         IN /\ scan' = ScanRecord("clientSecret", <<>>, r)
            /\ creds' = [creds EXCEPT !.clientSecret = r.value]
    /\ stageState' = Verified(Stages[3])
    /\ pc' = "distOpen"
    /\ UNCHANGED <<race, impl, env, blobFile, entry, req, http, inTry, stageLog, page, dist,
                   link, pending, outcome, ui>>

-----------------------------------------------------------------------------
(* Distribution page: navigation and blocking conditions *)

MaxBypassAttempts == 5
MaxWaitMs == 600000
PollMs == 1000

OnAccounts(url) == Includes(url, <<AccountsHost>>)
OnChooser(url) == Includes(url, <<AccountsHost, "/select">>)
OnPartners(url) == Includes(url, <<PartnersHost>>)

partnersId == DefaultPartnersId

\* const distPage = await context.newPage(); await distPage.goto(distributionUrl)
DistOpen ==
    /\ pc = "distOpen"
    /\ scan' = NoScan
    /\ browser' = [Goto(browser) EXCEPT !.pages = @ + 1]
    /\ LET target == distributionUrl(partnersId, page.appId)
       IN \E r \in {"ok", "NavigationTimeout"} :
            IF r = "ok"
            THEN /\ \E u \in DistLandings(target) :
                      dist' = [dist EXCEPT !.target = target, !.url = u, !.gotos = 1]
                 /\ pc' = "detect"
                 /\ UNCHANGED <<stageState, pending, outcome>>
            ELSE /\ Raise(ErrAt(r, "page.goto: Timeout exceeded", target))
                 /\ dist' = [dist EXCEPT !.target = target, !.gotos = 1]
    /\ UNCHANGED <<race, impl, env, blobFile, entry, req, http, inTry, stageLog, page, creds,
                   link, ui>>

Headed == env.PW_HEADED = Str(<<"1">>)

\* v2: the page is not on accounts.shopify.com
NotBlocked ==
    /\ pc = "detect"
    /\ impl = "v2"
    /\ ~OnAccounts(dist.url)
    /\ pc' = "selectEntry"
    /\ UNCHANGED <<race, impl, env, blobFile, entry, req, http, inTry, browser, stageLog,
                   stageState, page, dist, scan, creds, link, pending, outcome, ui>>

\* variant: only the account chooser counts as the wall
BlockedErrorChooserOnly(url) ==
    IF OnChooser(url)
    THEN ErrAt("BlockedByReauth", "Blocked by Shopify Accounts login / 2FA at partners-distribution",
               url)
    ELSE NoError

\* the error assertNotBlockedBy2FA throws for this URL; NoError when it returns
BlockedError(url) ==
    IF OnAccounts(url)
    THEN ErrAt("BlockedByReauth", "Blocked by Shopify Accounts login / 2FA at partners-distribution",
               url)
    ELSE NoError

\* v2, fail-fast mode
assertNotBlockedBy2FA ==
    /\ pc = "detect"
    /\ impl = "v2"
    /\ OnAccounts(dist.url)
    /\ ~Headed
    /\ browser' = Op(browser)
    /\ dist' = [dist EXCEPT !.wall = TRUE]
    /\ Raise(BlockedError(dist.url))
    /\ UNCHANGED <<race, impl, env, blobFile, entry, req, http, inTry, stageLog, page, scan,
                   creds, link, ui>>

\* when the operator finishes the challenge, in ms after the wait began
ReauthTimes == {1000, 300000, 599000, 600000, 601000}

\* while (Date.now() - start < 10 * 60_000) { if (url on partners) break; waitForTimeout(1000) }
\* The loop is left at the first poll k at which the time is up or the page is on
\* partners; the page is at back.to from `done` ms on and at back.from before.
UrlAt(t, done, back) == IF done <= t THEN back.to ELSE back.from

\* variant: the loop has no deadline
WaitLoopNoDeadline(done, back) ==
    LET k == CHOOSE n \in 0..((2 * MaxWaitMs) \div PollMs) :
                 /\ done <= n * PollMs
                 /\ \A m \in 0..(n - 1) : ~(done <= m * PollMs)
    IN [elapsed |-> k * PollMs, polls |-> k, url |-> back.to]

WaitLoop(done, back) ==
    LET before == OnPartners(back.from)
        after == OnPartners(back.to)
        \* the first poll at which the time is up, and the first at or after `done`
        up == (MaxWaitMs + PollMs - 1) \div PollMs
        at == (done + PollMs - 1) \div PollMs
        k == IF (IF done <= 0 THEN after ELSE before) THEN 0
             ELSE IF after /\ at < up THEN at
             ELSE up
    IN [elapsed |-> k * PollMs, polls |-> k, url |-> UrlAt(k * PollMs, done, back)]

\* v2, interactive mode: wait for the operator, bounded
WaitForReauth ==
    /\ pc = "detect"
    /\ impl = "v2"
    /\ OnAccounts(dist.url)
    /\ Headed
    /\ browser' = Op(browser)
    /\ \E done \in ReauthTimes, to \in {dist.target, PartnersHomeUrl} :
         LET w == WaitLoop(done, [from |-> dist.url, to |-> to])
         IN IF ~OnPartners(w.url)
            THEN /\ dist' = [dist EXCEPT !.wall = TRUE, !.url = w.url, !.done = done,
                                         !.polls = w.polls, !.elapsed = w.elapsed,
                                         !.reauth = "timedout"]
                 /\ Raise(ErrAt("BlockedByReauth",
                                "Still blocked by Shopify Accounts after waiting", w.url))
            ELSE /\ dist' = [dist EXCEPT !.wall = TRUE, !.url = w.url, !.done = done,
                                         !.polls = w.polls, !.elapsed = w.elapsed,
                                         !.reauth = "completed"]
                 /\ pc' = "save"
                 /\ UNCHANGED <<stageState, pending, outcome>>
    /\ UNCHANGED <<race, impl, env, blobFile, entry, req, http, inTry, stageLog, page, scan,
                   creds, link, ui>>

\* const statePath = getStorageStatePath(); await context.storageState({ path: statePath })
SavedBlob(e, file) ==
    LET atPath == getStorageStatePath(e, file) IN RefreshedBlob

SaveStorageState ==
    /\ pc = "save"
    /\ blobFile' = SavedBlob(env, blobFile)
    /\ dist' = [dist EXCEPT !.saved = TRUE]
    /\ browser' = Op(browser)
    /\ pc' = "selectEntry"
    /\ UNCHANGED <<race, impl, env, entry, req, http, inTry, stageLog, stageState, page, scan,
                   creds, link, pending, outcome, ui>>

\* p3: if (distPage.url().includes("accounts.shopify.com/select")) pickAccountIfNeeded(...)
DetectChooser ==
    /\ pc = "detect"
    /\ impl = "p3"
    /\ IF OnChooser(dist.url)
       THEN /\ dist' = [dist EXCEPT !.chooser = TRUE]
            /\ pc' = "bypass"
       ELSE /\ dist' = dist
            /\ pc' = "onPartners"
    /\ UNCHANGED <<race, impl, env, blobFile, entry, req, http, inTry, browser, stageLog,
                   stageState, page, scan, creds, link, pending, outcome, ui>>

\* variant: one attempt more than the ceiling
AfterBypassAttemptOneMore(url, attempt) ==
    IF OnPartners(url) THEN "return"
    ELSE IF ~OnChooser(url) THEN "return"
    ELSE IF attempt <= MaxBypassAttempts THEN "again"
    ELSE "throw"

\* variant: the loop does not look at the page before the last attempt
AfterBypassAttemptNoEarlyExit(url, attempt) ==
    IF attempt < MaxBypassAttempts THEN "again"
    ELSE IF OnChooser(url) THEN "throw"
    ELSE "return"

\* where the bypass loop goes after a re-navigation that landed on url
AfterBypassAttempt(url, attempt) ==
    IF OnPartners(url) THEN "return"
    ELSE IF ~OnChooser(url) THEN "return"
    ELSE IF attempt < MaxBypassAttempts THEN "again"
    ELSE "throw"

\* one iteration of the loop of pickAccountIfNeeded
pickAccountIfNeeded ==
    /\ pc = "bypass"
    /\ impl = "p3"
    /\ browser' = Goto(browser)
    /\ \E r \in {"ok", "NavigationTimeout"} :
         IF r = "ok"
         THEN \E u \in DistLandings(dist.target) :
                LET n == dist.attempts + 1
                    next == AfterBypassAttempt(u, n)
                IN /\ dist' = [dist EXCEPT !.url = u, !.gotos = @ + 1, !.attempts = n,
                                           !.landings = Append(@, u)]
                   /\ IF next = "throw"
                      THEN Raise(ErrAt("ChooserBypassFailed",
                                       "Account chooser bypass failed; still on chooser after retries",
                                       u))
                      ELSE /\ pc' = IF next = "again" THEN "bypass" ELSE "onPartners"
                           /\ UNCHANGED <<stageState, pending, outcome>>
         ELSE /\ dist' = [dist EXCEPT !.gotos = @ + 1, !.attempts = @ + 1]
              /\ Raise(ErrAt(r, "page.goto: Timeout exceeded", dist.target))
    /\ UNCHANGED <<race, impl, env, blobFile, entry, req, http, inTry, stageLog, page, scan,
                   creds, link, ui>>

\* /partners\.shopify\.com\/\d+\/apps\/\d+\/distribution/
MatchesDistribution(url) ==
    \E i \in 1..Len(url) :
        /\ i + 5 <= Len(url)
        /\ url[i] = PartnersHost
        /\ url[i + 1] = "/"
        /\ url[i + 2] \in Digits
        /\ url[i + 3] = "/apps/"
        /\ url[i + 4] \in Digits
        /\ url[i + 5] = "/distribution"

\* lines 1225-1867: on the chooser a tile is clicked (the named one, else the first
\* link), then waitForAnyURL polls for the distribution URL for 30 s; off the chooser
\* the run goes on without a look at the URL
PickAccountV3 ==
    /\ pc = "detect"
    /\ impl = "v3"
    /\ browser' = Op(browser)
    /\ IF ~OnChooser(dist.url)
       THEN /\ dist' = dist
            /\ pc' = "selectEntry"
            /\ UNCHANGED <<stageState, pending, outcome>>
       ELSE \E tile \in {"named", "first", "none"}, u \in DistLandings(dist.target) :
              IF tile = "none"
              THEN /\ dist' = [dist EXCEPT !.chooser = TRUE]
                   /\ Raise(ErrAt("ElementNotFound", "locator.waitFor: Timeout exceeded",
                                   dist.url))
              ELSE /\ dist' = [dist EXCEPT !.chooser = TRUE, !.url = u]
                   /\ IF MatchesDistribution(u)
                      THEN /\ pc' = "selectEntry"
                           /\ UNCHANGED <<stageState, pending, outcome>>
                      ELSE Raise(ErrAt("NavigationTimeout",
                                       "Timed out waiting for URL to match any", u))
    /\ UNCHANGED <<race, impl, env, blobFile, entry, req, http, inTry, stageLog, page, scan,
                   creds, link, ui>>

\* p3: if (!distPage.url().includes("partners.shopify.com")) throw
CheckOnPartners ==
    /\ pc = "onPartners"
    /\ IF OnPartners(dist.url)
       THEN /\ pc' = "selectEntry"
            /\ UNCHANGED <<stageState, pending, outcome>>
       ELSE Raise(ErrAt("NotOnPartners", "Still not on partners distribution page", dist.url))
    /\ UNCHANGED <<race, impl, env, blobFile, entry, req, http, inTry, browser, stageLog, page,
                   dist, scan, creds, link, ui>>

-----------------------------------------------------------------------------
(* Stage 4: SelectDistributionMethod *)

\* the check at the top of selectCustomDistribution
OnDistributionPage(url) ==
    CASE impl = "v2" -> OnPartners(url) /\ Includes(url, <<"/distribution">>)
      [] impl = "p3" -> OnPartners(url)
      [] OTHER -> TRUE

SelectEntry ==
    /\ pc = "selectEntry"
    /\ stageLog' = Append(stageLog, Stages[4])
    /\ browser' = Op(browser)
    /\ IF OnDistributionPage(dist.url)
       THEN /\ stageState' = Running(Stages[4])
            /\ pc' = "selectBody"
            /\ UNCHANGED <<pending, outcome>>
       ELSE RaiseFrom(Running(Stages[4]),
                      ErrAt("NotOnDistribution", "Not on partners distribution page", dist.url))
    /\ UNCHANGED <<race, impl, env, blobFile, entry, req, http, inTry, page, dist, scan, creds,
                   link, ui>>

\* the navigation to the distribution page is over: the landings, the clock and the
\* poll counter are out of scope; what happened on the way stays on record
Settled(d) == [d EXCEPT !.landings = <<>>, !.gotos = 0, !.done = 0, !.polls = 0,
                        !.elapsed = 0]

\* what the distribution page shows when selectCustomDistribution looks at it:
\* text: some text with "distribution"; target: the domain input; gen: a Generate link
\* button; direct: the button "Select custom distribution"; card: the text "Custom
\* distribution"; next: a generic Select / Continue button; modal: a confirmation
\* after the choice; reached: the domain input is there in the end
SelectUis ==
    {u \in [text : BOOLEAN, target : BOOLEAN, gen : BOOLEAN, direct : BOOLEAN,
            card : BOOLEAN, next : BOOLEAN, modal : BOOLEAN, reached : BOOLEAN] :
        /\ u.target => u.reached
        /\ u.card => u.text}

\* the function returns; observed: it has seen the domain input
Done(clicks, observed) == [clicks |-> clicks, observed |-> observed, error |-> NoError]
Failed(clicks, kind, msg) ==
    [clicks |-> clicks, observed |-> FALSE, error |-> ErrAt(kind, msg, dist.url)]

AnchorVisible(u) == u.text \/ u.target \/ u.gen \/ u.direct \/ u.card \/ u.next

\* lines 557-1224
selectCustomDistributionV2(u) ==
    IF ~AnchorVisible(u) THEN Failed(<<>>, "NavigationTimeout", "locator.waitFor: Timeout exceeded")
    ELSE IF u.target \/ u.gen THEN Done(<<>>, u.target)
    ELSE LET clicks == (IF u.direct THEN <<"select">>
                        ELSE (IF u.card THEN <<"card">> ELSE <<>>)
                             \o (IF u.next THEN <<"next">> ELSE <<>>))
                       \o (IF u.modal THEN <<"confirm">> ELSE <<>>)
         IN IF u.reached THEN Done(clicks, TRUE)
            ELSE Failed(clicks, "ElementNotFound",
                        "Custom distribution form still not visible (no domain input)")

\* part_003
selectCustomDistributionP3(u) ==
    IF ~AnchorVisible(u) THEN Failed(<<>>, "NavigationTimeout", "locator.waitFor: Timeout exceeded")
    ELSE IF u.target \/ u.gen THEN Done(<<>>, u.target)
    ELSE IF u.direct THEN Done(<<"select">>, FALSE)
    ELSE LET clicks == (IF u.card THEN <<"card">> ELSE <<>>)
                       \o (IF u.next THEN <<"next">> ELSE <<>>)
         IN IF u.reached THEN Done(clicks, TRUE)
            ELSE Failed(clicks, "ElementNotFound",
                        "Could not reach Custom distribution UI (missing #PolarisTextField1)")

\* lines 1225-1867: no look at the domain input, neither first nor last
selectCustomDistributionV3(u) ==
    IF u.direct THEN Done(<<"select">>, FALSE)
    ELSE IF ~u.card THEN Failed(<<>>, "ElementNotFound", "locator.waitFor: Timeout exceeded")
    ELSE IF ~u.next
    THEN Failed(<<"card">>, "ElementNotFound", "locator.waitFor: Timeout exceeded")
    ELSE Done(<<"card", "next">> \o (IF u.modal THEN <<"confirm">> ELSE <<>>), FALSE)

selectCustomDistribution(u) ==
    CASE impl = "v2" -> selectCustomDistributionV2(u)
      [] impl = "p3" -> selectCustomDistributionP3(u)
      [] OTHER -> selectCustomDistributionV3(u)

SelectBody ==
    /\ pc = "selectBody"
    /\ browser' = Op(browser)
    /\ dist' = Settled(dist)
    /\ \E u \in SelectUis :
         LET r == selectCustomDistribution(u)
         IN /\ ui' = [ui EXCEPT !.found = IF u.target THEN "target" ELSE "other",
                                !.clicks = r.clicks,
                                !.observed = r.observed,
                                !.reached = u.reached]
            /\ IF r.error = NoError
               THEN /\ stageState' = Verified(Stages[4])
                    /\ pc' = "fillEntry"
                    /\ UNCHANGED <<pending, outcome>>
               ELSE Raise(r.error)
    /\ UNCHANGED <<race, impl, env, blobFile, entry, req, http, inTry, stageLog, page, scan,
                   creds, link>>

-----------------------------------------------------------------------------
(* Stage 5: FillActivationTargetAndGenerateLink *)

\* the choice of the method is left behind
FillEntry ==
    /\ pc = "fillEntry"
    /\ stageLog' = Append(stageLog, Stages[5])
    /\ browser' = Op(browser)
    /\ ui' = FreshUi
    /\ IF impl = "v2"
       THEN IF ~Includes(dist.url, <<"/distribution">>)
            THEN /\ RaiseFrom(Running(Stages[5]),
                              ErrAt("NotOnDistribution", "Not on partners distribution page",
                                    dist.url))
                 /\ scan' = scan
            ELSE \E st \in [1..Len(DomainCandidates) -> DomainStatuses] :
                   LET r == DomainScan(st, 1, <<>>)
                   IN /\ scan' = ScanRecord("domainInput", <<>>, r)
                      /\ IF r.hit = 0
                         THEN RaiseFrom(Running(Stages[5]),
                                        ErrAt("ElementNotFound",
                                              "Could not find domain input on distribution page",
                                              dist.url))
                         ELSE /\ stageState' = Running(Stages[5])
                              /\ pc' = "fillBody"
                              /\ UNCHANGED <<pending, outcome>>
       ELSE /\ scan' = scan
            /\ \E r \in {"ok", "ElementNotFound"} :
                 IF r = "ok"
                 THEN /\ stageState' = Running(Stages[5])
                      /\ pc' = "fillBody"
                      /\ UNCHANGED <<pending, outcome>>
                 ELSE RaiseFrom(Running(Stages[5]),
                                ErrAt(r, "waitForSelector #PolarisTextField1", dist.url))
    /\ UNCHANGED <<race, impl, env, blobFile, entry, req, http, inTry, page, dist, creds, link>>

InstallLink(domain) ==
    <<"https://", "admin.shopify.com", "/oauth/", "install_custom_app", "?shop=">> \o domain

\* what the install-link textbox can hold after the link was generated
ShownLinks(domain) == {<<>>, InstallLink(domain) \o <<" ">>}

\* the value fillDomainAndGenerateLink hands to its caller: the scraped link, trimmed;
\* lines 1225-1867 scrape it and end without a return statement
returnedLink(shown) == IF impl = "v3" THEN <<>> ELSE Trim(shown)

\* type the domain, read it back, click Generate link (and its confirmation), scrape
FillBody ==
    /\ pc = "fillBody"
    /\ browser' = Op(browser)
    /\ scan' = NoScan
    /\ \E echo \in Echoes(req.store_domain.val), cap \in Captures,
          gen \in {"ok", "ElementNotFound"}, second \in BOOLEAN,
          shown \in ShownLinks(req.store_domain.val) :
         LET e == domainMismatch(req.store_domain.val, echo)
         IN IF e # NoError
            THEN /\ ui' = [ui EXCEPT !.wrote = req.store_domain.val, !.echo = echo,
                                     !.shot = safeScreenshot(env, cap)]
                 /\ Raise(e)
                 /\ UNCHANGED <<link, dist>>
            ELSE IF gen # "ok"
            THEN /\ ui' = [ui EXCEPT !.wrote = req.store_domain.val, !.echo = echo]
                 /\ Raise(ErrAt(gen, "locator.waitFor: Timeout exceeded", dist.url))
                 /\ UNCHANGED <<link, dist>>
            ELSE /\ ui' = [ui EXCEPT !.wrote = req.store_domain.val, !.echo = echo,
                                     !.clicks = IF second THEN <<"generate", "generateConfirm">>
                                                ELSE <<"generate">>]
                 /\ dist' = [dist EXCEPT !.shown = shown]
                 /\ link' = returnedLink(shown)
                 /\ stageState' = Verified(Stages[5])
                 /\ pc' = "return"
                 /\ UNCHANGED <<pending, outcome>>
    /\ UNCHANGED <<race, impl, env, blobFile, entry, req, http, inTry, stageLog, page, creds>>

-----------------------------------------------------------------------------
(* Completion *)

NoteV2 == "Created app + configured version + released + scraped Client ID/secret + generated distribution link (if not blocked by 2FA)."
NoteP3 == "Created app + configured version + released + scraped Client ID/secret + generated distribution link."

WorkflowResult ==
    [present |-> TRUE,
     app_name |-> page.appName,
     client_id |-> clean(creds.clientId),
     client_secret |-> clean(creds.clientSecret),
     distribution_link |-> clean(link),
     note |-> IF impl = "v2" THEN NoteV2 ELSE NoteP3,
     store_domain |-> req.store_domain]

Return ==
    /\ pc = "return"
    /\ pending' = [state |-> "returned", error |-> NoError, result |-> WorkflowResult]
    /\ ui' = FreshUi
    /\ pc' = "finally"
    /\ UNCHANGED <<race, impl, env, blobFile, entry, req, http, inTry, browser, stageLog,
                   stageState, page, dist, scan, creds, link, outcome>>

\* browser.close()
Close(b) == [b EXCEPT !.state = "closed", !.closes = @ + 1]

\* finally { await browser.close(); }  then the pending completion reaches the caller
Finally ==
    /\ pc = "finally"
    /\ browser' = Close(browser)
    /\ outcome' = pending
    /\ inTry' = FALSE
    /\ pc' = "done"
    /\ UNCHANGED <<race, impl, env, blobFile, entry, req, http, stageLog, stageState, page,
                   dist, scan, creds, link, pending, ui>>

RunOver == pc = "done" /\ (entry = "http" => http.phase = "responded")

\* the process serves the next request
NextRun ==
    /\ RunOver
    /\ pc' = "idle"
    /\ inTry' = FALSE
    /\ entry' = "none"
    /\ req' = FreshReq
    /\ http' = FreshHttp
    /\ browser' = FreshBrowser
    /\ stageLog' = <<>>
    /\ stageState' = [s \in StageSet |-> "Pending"]
    /\ page' = FreshPage
    /\ dist' = FreshDist
    /\ scan' = NoScan
    /\ creds' = [clientId |-> <<>>, clientSecret |-> <<>>]
    /\ link' = <<>>
    /\ ui' = FreshUi
    /\ pending' = FreshOutcome
    /\ outcome' = FreshOutcome
    /\ UNCHANGED <<race, impl, env, blobFile>>

-----------------------------------------------------------------------------
(* Element resolution on its own: each candidate loop against every page *)

\* the loop over idCandidates
ResolveClientId ==
    /\ \E st \in [1..Len(IdTexts) -> CredStatuses] :
         scan' = ScanRecord("clientId", st, CredScan(IdTexts, st, 1, <<>>, <<>>))
    /\ UNCHANGED <<race, impl, env, blobFile, entry, req, http, runVars_noScan>>

\* the loop over secretCandidates
ResolveClientSecret ==
    /\ \E st \in [1..Len(SecretTexts) -> CredStatuses] :
         scan' = ScanRecord("clientSecret", st, CredScan(SecretTexts, st, 1, <<>>, <<>>))
    /\ UNCHANGED <<race, impl, env, blobFile, entry, req, http, runVars_noScan>>

\* the loop over domainCandidates
ResolveDomainInput ==
    /\ \E st \in [1..Len(DomainCandidates) -> DomainStatuses] :
         scan' = ScanRecord("domainInput", st, DomainScan(st, 1, <<>>))
    /\ UNCHANGED <<race, impl, env, blobFile, entry, req, http, runVars_noScan>>

\* the loop over submitCreateCandidates
ResolveSubmitCreate ==
    /\ \E st \in [1..NumSubmitCands -> SubmitStatuses] :
         scan' = ScanRecord("submitCreate", st, SubmitScan(st, 1, <<>>))
    /\ UNCHANGED <<race, impl, env, blobFile, entry, req, http, runVars_noScan>>

NextResolve ==
    \/ ResolveClientId
    \/ ResolveClientSecret
    \/ ResolveDomainInput
    \/ ResolveSubmitCreate

\* one process, no run in progress
InitResolve ==
    /\ Init
    /\ impl = "v2"
    /\ env = [SHOPIFY_DEV_DASHBOARD_URL |-> Str(DashboardUrl), PW_HEADED |-> Undefined,
              SHOPIFY_STORAGE_STATE_JSON |-> Undefined, ENABLE_SCREENSHOTS |-> Undefined]

SpecResolve == InitResolve /\ [][NextResolve]_vars

-----------------------------------------------------------------------------
(* The distribution page element by element: which input is taken for the domain, *)
(* which field the install link is read from                                      *)

MaxInputs == 3

\* an input of the page: it has an accessible name with "domain" in it, or an id
\* PolarisTextField1, or a placeholder with "myshopify" in it, or none of these
InputKinds == {"label", "polaris", "placeholder", "plain"}

InputPages == UNION {[1..n -> InputKinds] : n \in 0..MaxInputs}

\* locator(...).first(): the position of the first element of that kind, 0 for none
FirstOf(els, kind) ==
    LET m == {i \in 1..Len(els) : els[i] = kind}
    IN IF m = {} THEN 0 ELSE CHOOSE i \in m : \A j \in m : i <= j

\* the element a candidate of domainCandidates points at; the third candidate is the
\* first text input of the page
candidateElement(els, cand) ==
    CASE cand = "label" -> FirstOf(els, "label")
      [] cand = "placeholder" -> FirstOf(els, "placeholder")
      [] OTHER -> IF els = <<>> THEN 0 ELSE 1

\* the element fillDomainAndGenerateLink types the domain into, 0 when it throws:
\* lines 557-1224 take the first candidate with count() > 0, the other iterations
\* wait for #PolarisTextField1
domainInputElement(els) ==
    IF impl = "v2"
    THEN LET st == [c \in 1..Len(DomainCandidates) |->
                      IF candidateElement(els, DomainCandidates[c]) # 0 THEN "present"
                      ELSE "absent"]
             r == DomainScan(st, 1, <<>>)
         IN [tried |-> r.tried,
             hit |-> IF r.hit = 0 THEN 0 ELSE candidateElement(els, DomainCandidates[r.hit])]
    ELSE [tried |-> <<1>>, hit |-> FirstOf(els, "polaris")]

\* one look at one page; scan.hit is the position of the element that is filled
LocateDomainInput ==
    /\ scan = NoScan
    /\ \E els \in InputPages :
         scan' = ScanRecord("domainElement", els, domainInputElement(els))
    /\ UNCHANGED <<race, impl, env, blobFile, entry, req, http, runVars_noScan>>

\* what a field of the page can hold after Generate link
LinkTexts ==
    {<<>>, <<" ">>, AcmeDomain,
     <<"https://", "admin.shopify.com", "/store/", "acme">>,
     <<"https://", "example.com", "/oauth/", "authorize">>,
     <<"https://", "admin.shopify.com", "/", "install_custom_app", "\n">>,
     <<" ">> \o InstallLink(AcmeDomain) \o <<"\n">>}

\* a field: a string, or Undefined when there is no such field or reading it throws
FieldValues == {Str(t) : t \in LinkTexts} \cup {Undefined}

FieldPages == UNION {[1..n -> FieldValues] : n \in 0..MaxInputs}

\* (await x.inputValue().catch(() => "")).trim(), and try { ... } catch {} around the
\* labelled textbox
inputValueTrimmed(v) == IF v.type = "string" THEN Trim(v.val) ELSE <<>>

\* v.includes("admin.shopify.com") && (v.includes("/oauth/") || v.includes("install_custom_app"))
LinkShaped(v) ==
    /\ Includes(v, <<"admin.shopify.com">>)
    /\ Includes(v, <<"/oauth/">>) \/ Includes(v, <<"install_custom_app">>)

\* variant: the first input that is not empty is taken
RECURSIVE InputScanAnyValue(_, _, _)
InputScanAnyValue(inputs, i, tried) ==
    IF i > Len(inputs) THEN [tried |-> tried, hit |-> 0, value |-> <<>>]
    ELSE LET v == inputValueTrimmed(inputs[i])
         IN IF v # <<>>
            THEN [tried |-> Append(tried, i + 1), hit |-> i + 1, value |-> v]
            ELSE InputScanAnyValue(inputs, i + 1, Append(tried, i + 1))

\* for (let i = 0; i < n; i++) { const v = ...; if (shape) { link = v; break; } }
\* the fields are numbered from 2, field 1 is the labelled textbox
RECURSIVE InputScan(_, _, _)
InputScan(inputs, i, tried) ==
    IF i > Len(inputs) THEN [tried |-> tried, hit |-> 0, value |-> <<>>]
    ELSE LET v == inputValueTrimmed(inputs[i])
         IN IF LinkShaped(v)
            THEN [tried |-> Append(tried, i + 1), hit |-> i + 1, value |-> v]
            ELSE InputScan(inputs, i + 1, Append(tried, i + 1))

\* let link = ""; try { link = (textbox "install link").inputValue().trim() } catch {}
\* if (!link) { scan of the inputs }
scrapeLink(labelled, inputs) ==
    LET first == inputValueTrimmed(labelled)
    IN IF first # <<>> THEN [tried |-> <<1>>, hit |-> 1, value |-> first]
       ELSE InputScan(inputs, 1, <<1>>)

\* scan.st holds the labelled textbox followed by the inputs in page order
ScrapeInstallLink ==
    /\ scan = NoScan
    /\ \E labelled \in FieldValues, inputs \in FieldPages :
         scan' = ScanRecord("installLink", <<labelled>> \o inputs, scrapeLink(labelled, inputs))
    /\ UNCHANGED <<race, impl, env, blobFile, entry, req, http, runVars_noScan>>

NextPage ==
    \/ LocateDomainInput
    \/ ScrapeInstallLink

\* no run in progress, any iteration
InitPage ==
    /\ Init
    /\ env = [SHOPIFY_DEV_DASHBOARD_URL |-> Str(DashboardUrl), PW_HEADED |-> Undefined,
              SHOPIFY_STORAGE_STATE_JSON |-> Undefined, ENABLE_SCREENSHOTS |-> Undefined]

SpecPage == InitPage /\ [][NextPage]_vars

-----------------------------------------------------------------------------
(* Two calls of generateShopifyApp in flight in one process.  Each call has its own
   browser, context and pages; the file at the storage path and process.env are the
   only things both reach.  A call is followed from the creation of its context to
   the save after a re-authentication. *)

\* the session a call holds after its own re-authentication
RefreshedBy(r) == IF r = 1 THEN "refreshed-1" ELSE "refreshed-2"

\* variant: the file is written only while it holds no refreshed session
writeBlobUnlessRefreshed(file, blob) ==
    IF file \in {RefreshedBy(r) : r \in Runs} THEN file ELSE blob

\* context.storageState({ path }): the file at the path is replaced
writeBlob(file, blob) == blob

raceOthers == <<impl, env, entry, req, http, runVars>>
RaceAt(r, where) == race' = [race EXCEPT !.at[r] = where]

\* browser.newContext({ storageState: getStorageStatePath() })
RaceNewContext(r) ==
    /\ race.at[r] = "idle"
    /\ blobFile' = getStorageStatePath(env, blobFile)
    /\ race' = [race EXCEPT !.at[r] = "running", !.loaded[r] = blobFile']
    /\ UNCHANGED raceOthers

\* distPage.goto(distributionUrl), then distPage.url().includes("accounts.shopify.com")
RaceDistOpen(r) ==
    /\ race.at[r] = "running"
    /\ \E u \in {LoginUrl, distributionUrl(partnersId, "123")} :
         RaceAt(r, IF OnAccounts(u) THEN "wall" ELSE "clear")
    /\ UNCHANGED <<blobFile, raceOthers>>

\* if (process.env.PW_HEADED === "1") { wait } else { assertNotBlockedBy2FA }
RaceDetect(r) ==
    /\ race.at[r] = "wall"
    /\ RaceAt(r, IF Headed THEN "waiting" ELSE "blocked")
    /\ UNCHANGED <<blobFile, raceOthers>>

\* the wait loop: the page is back on partners in time, or the call throws
RaceWait(r) ==
    /\ race.at[r] = "waiting"
    /\ \E done \in ReauthTimes :
         LET w == WaitLoop(done, [from |-> LoginUrl, to |-> PartnersHomeUrl])
         IN RaceAt(r, IF OnPartners(w.url) THEN "back" ELSE "timedout")
    /\ UNCHANGED <<blobFile, raceOthers>>

\* const statePath = getStorageStatePath();
RaceResolvePath(r) ==
    /\ race.at[r] = "back"
    /\ blobFile' = getStorageStatePath(env, blobFile)
    /\ RaceAt(r, "saving")
    /\ UNCHANGED raceOthers

\* await context.storageState({ path: statePath });
RaceSave(r) ==
    /\ race.at[r] = "saving"
    /\ blobFile' = writeBlob(blobFile, RefreshedBy(r))
    /\ race' = [race EXCEPT !.at[r] = "saved", !.order = Append(@, r)]
    /\ UNCHANGED raceOthers

NextRace ==
    \/ \E r \in Runs : RaceNewContext(r)
    \/ \E r \in Runs : RaceDistOpen(r)
    \/ \E r \in Runs : RaceDetect(r)
    \/ \E r \in Runs : RaceWait(r)
    \/ \E r \in Runs : RaceResolvePath(r)
    \/ \E r \in Runs : RaceSave(r)

\* only lines 557-1224 save the storage state; the calls have passed the check of
\* SHOPIFY_DEV_DASHBOARD_URL
InitRace ==
    /\ Init
    /\ impl = "v2"
    /\ ~Falsy(env.SHOPIFY_DEV_DASHBOARD_URL)

SpecRace == InitRace /\ [][NextRace]_vars

-----------------------------------------------------------------------------
Next ==
    \/ HandleRequest
    \/ HandleRequestPart002
    \/ HandleRequestPart001
    \/ CallDirect
    \/ SendResponse
    \/ Validate
    \/ Launch
    \/ NewContext
    \/ NewPage
    \/ CreateOpen
    \/ CreateSubmit
    \/ CreateLanded
    \/ CreateLandedV3
    \/ EnsureListed
    \/ ConfigureCheck
    \/ ConfigureAppUrl
    \/ ConfigureEmbed
    \/ ConfigureFields
    \/ ConfigureRelease
    \/ ScrapeOpen
    \/ ScrapeClientId
    \/ ScrapeClientSecret
    \/ DistOpen
    \/ NotBlocked
    \/ assertNotBlockedBy2FA
    \/ WaitForReauth
    \/ SaveStorageState
    \/ DetectChooser
    \/ pickAccountIfNeeded
    \/ PickAccountV3
    \/ CheckOnPartners
    \/ SelectEntry
    \/ SelectBody
    \/ FillEntry
    \/ FillBody
    \/ Return
    \/ Finally
    \/ NextRun

Spec == Init /\ [][Next]_vars

\* the steps of one call of generateShopifyApp, from its first statement to the end
\* of its finally clause
RunStep ==
    \/ Validate
    \/ Launch
    \/ NewContext
    \/ NewPage
    \/ CreateOpen
    \/ CreateSubmit
    \/ CreateLanded
    \/ CreateLandedV3
    \/ EnsureListed
    \/ ConfigureCheck
    \/ ConfigureAppUrl
    \/ ConfigureEmbed
    \/ ConfigureFields
    \/ ConfigureRelease
    \/ ScrapeOpen
    \/ ScrapeClientId
    \/ ScrapeClientSecret
    \/ DistOpen
    \/ NotBlocked
    \/ assertNotBlockedBy2FA
    \/ WaitForReauth
    \/ SaveStorageState
    \/ DetectChooser
    \/ pickAccountIfNeeded
    \/ PickAccountV3
    \/ CheckOnPartners
    \/ SelectEntry
    \/ SelectBody
    \/ FillEntry
    \/ FillBody
    \/ Return
    \/ Finally

\* every awaited navigation, element wait and pause settles (it returns or it throws
\* when its timeout is up), so a call that can take a step takes one; nothing is
\* assumed about when requests arrive
SpecLive == Init /\ [][Next]_vars /\ WF_vars(RunStep)

-----------------------------------------------------------------------------
(* Properties *)

\* generateShopifyApp has been called in this run
Called == entry = "direct" \/ (entry = "http" /\ http.coreCalls > 0)
InvalidField(v) == Falsy(v) \/ v.type # "string"
InvalidRequest == InvalidField(req.brand_name) \/ InvalidField(req.store_domain)
NoBrowserWork ==
    /\ browser = FreshBrowser
    /\ page.url = <<>>
    /\ dist = FreshDist
    /\ stageLog = <<>>
\* the error the run is failing or has failed with
Thrown ==
    IF pc = "finally" /\ pending.state = "threw" THEN pending.error
    ELSE IF outcome.state = "threw" THEN outcome.error
    ELSE NoError
Started(i) == \E j \in 1..Len(stageLog) : stageLog[j] = Stages[i]

\* C1 (as stated): a call of generateShopifyApp whose brand_name or store_domain is
\* empty or not a string fails with a validation error and does no browser work.
C1_AsStated ==
    (Called /\ InvalidRequest /\ pc # "validate") =>
        /\ NoBrowserWork
        /\ pc = "done"
        /\ outcome.state = "threw"
        /\ outcome.error.kind = "ValidationError"

\* C1 (amended): a call of generateShopifyApp whose brand_name or store_domain is
\* empty or not a string fails before any browser work (no launch, no context, no
\* page, no navigation); the error is a validation error when
\* SHOPIFY_DEV_DASHBOARD_URL is set and the missing-configuration error otherwise.
C1_InvalidRequestFailsBeforeBrowserWork ==
    (Called /\ InvalidRequest /\ pc # "validate") =>
        /\ NoBrowserWork
        /\ pc = "done"
        /\ outcome.state = "threw"
        /\ outcome.result = NoResult
        /\ outcome.error.kind = IF Falsy(env.SHOPIFY_DEV_DASHBOARD_URL)
                                THEN "ConfigurationError" ELSE "ValidationError"

C1_Witness ==
    /\ Called
    /\ pc = "done"
    /\ ValidBrand(req.brand_name)
    /\ InvalidField(req.store_domain)
    /\ outcome.error = Err("ValidationError", "store_domain is required")

\* C2: whatever the outcome of a run that launched a browser, the browser is closed
\* exactly once and no browser operation follows the close.
C2_BrowserClosedExactlyOnce ==
    /\ browser.closes <= 1
    /\ ~browser.opsAfterClose
    /\ (pc = "done" /\ browser.launches = 1) => browser.closes = 1

\* a run that is over with its browser launched and never closed
C2_Leak ==
    /\ pc = "done"
    /\ browser.launches = 1
    /\ browser.closes = 0
    /\ outcome.error.kind \in {"ContextFailed", "PageFailed"}

\* C3: when a stage fails the caller gets one error with a message and no result
\* field, also when the credentials had been scraped; the endpoint answers such a
\* run with status 500 and a body that holds the error only.
C3_AllOrNothing ==
    /\ (pc = "done" /\ \E s \in StageSet : stageState[s] = "Failed") =>
           outcome.state = "threw"
    /\ (pc = "finally" /\ \E s \in StageSet : stageState[s] = "Failed") =>
           pending.state = "threw"
    /\ outcome.state = "threw" =>
           /\ outcome.result = NoResult
           /\ outcome.error.kind # "none"
           /\ outcome.error.msg # ""
    /\ (entry = "http" /\ http.phase = "responded" /\ outcome.state = "threw") =>
           /\ http.status = 500
           /\ http.body.kind = "error"
           /\ http.body.error = outcome.error.msg
           /\ DOMAIN http.body \subseteq {"kind", "error", "name", "ts"}

C3_Witness ==
    /\ entry = "http"
    /\ http.phase = "responded"
    /\ http.status = 500
    /\ stageState[Stages[5]] = "Failed"
    /\ creds.clientId # <<>>
    /\ creds.clientSecret # <<>>
    /\ outcome.state = "threw"

\* C4: the stages start in the fixed order, each only after the one before it was
\* verified, none twice and none skipped, and none after a stage has failed.
C4_StageOrderState ==
    /\ Len(stageLog) <= Len(Stages)
    /\ \A i \in 1..Len(stageLog) : stageLog[i] = Stages[i]
    /\ \A i \in 1..Len(Stages) : (stageState[Stages[i]] # "Pending") <=> (i <= Len(stageLog))
    /\ \A i \in 1..Len(Stages) : i < Len(stageLog) => stageState[Stages[i]] = "Verified"
    /\ \A i \in 1..Len(Stages) :
         stageState[Stages[i]] = "Failed" => (i = Len(stageLog) /\ pc \in {"finally", "done"})

C4_StageOrderStep ==
    stageLog' # stageLog =>
        \/ stageLog' = <<>> /\ pc' = "idle"
        \/ /\ Len(stageLog) < Len(Stages)
           /\ stageLog' = Append(stageLog, Stages[Len(stageLog) + 1])
           /\ \A s \in StageSet : stageState[s] # "Failed"
           /\ Len(stageLog) > 0 => stageState[Stages[Len(stageLog)]] = "Verified"

C4_StagesInFixedOrder == [](C4_StageOrderState) /\ [][C4_StageOrderStep]_vars

C4_Witness ==
    /\ stageLog = <<Stages[1], Stages[2], Stages[3]>>
    /\ stageState[Stages[3]] = "Failed"
    /\ pc = "done"

\* the re-navigations of the bypass loop so far all succeeded, and all landed on the chooser
AllChooser ==
    /\ dist.attempts = Len(dist.landings)
    /\ \A i \in 1..Len(dist.landings) : OnChooser(dist.landings[i])

\* C5: when the distribution navigation lands on the account chooser and every
\* re-navigation lands on it again, exactly 5 re-navigations are made, then the run
\* fails with the bypass error, and SelectDistributionMethod is not started.
C5_ChooserNeverResolves ==
    (impl = "p3" /\ dist.chooser /\ AllChooser) =>
        /\ dist.attempts <= MaxBypassAttempts
        /\ ~Started(4)
        /\ pc \in {"bypass", "finally", "done"}
        /\ pc = "bypass" => dist.attempts < MaxBypassAttempts
        /\ pc \in {"finally", "done"} =>
             /\ dist.attempts = MaxBypassAttempts
             /\ dist.gotos = 1 + MaxBypassAttempts
             /\ Thrown.kind = "ChooserBypassFailed"
             /\ Thrown.msg = "Account chooser bypass failed; still on chooser after retries"

C5_Witness ==
    /\ impl = "p3"
    /\ pc = "done"
    /\ dist.chooser
    /\ AllChooser
    /\ dist.attempts = 5
    /\ outcome.error.kind = "ChooserBypassFailed"

\* the chooser stopped appearing at the k-th re-navigation, which landed on partners
ResolvedAt(k) ==
    /\ dist.chooser
    /\ Len(dist.landings) >= k
    /\ \A i \in 1..(k - 1) : OnChooser(dist.landings[i])
    /\ OnPartners(dist.landings[k])

\* C6: when the chooser stops appearing after exactly k re-navigations (1 <= k <= 5)
\* and the page is then on partners, exactly k attempts are made, no re-navigation
\* follows, and the run goes on to SelectDistributionMethod.
C6_ChooserResolvesAfterK ==
    \A k \in 1..MaxBypassAttempts :
        (impl = "p3" /\ ResolvedAt(k)) =>
            /\ dist.attempts = k
            /\ Len(dist.landings) = k
            /\ dist.gotos = 1 + k
            /\ dist.url = dist.landings[k]
            /\ pc \in {"onPartners", "selectEntry", "selectBody"}
            /\ pc = "selectBody" => Started(4)

\* a run that made 3 bypass attempts and returned its result
C6_Witness ==
    /\ impl = "p3"
    /\ dist.chooser
    /\ dist.attempts = 3
    /\ Started(4)
    /\ pc = "done"
    /\ outcome.state = "returned"

\* C7: in fail-fast mode a distribution navigation that lands on accounts.shopify.com
\* makes the run fail at once with the BlockedByReauth error carrying that URL: one
\* navigation, no wait, and neither of the last two stages is started.
C7_FailFastOnWall ==
    (impl = "v2" /\ ~Headed /\ dist.gotos >= 1 /\ OnAccounts(dist.url) /\ pc # "detect") =>
        /\ pc \in {"finally", "done"}
        /\ Thrown.kind = "BlockedByReauth"
        /\ Thrown.url = dist.url
        /\ dist.gotos = 1
        /\ dist.polls = 0
        /\ dist.elapsed = 0
        /\ dist.attempts = 0
        /\ ~dist.saved
        /\ ~Started(4)
        /\ ~Started(5)

C7_Witness ==
    /\ impl = "v2"
    /\ ~Headed
    /\ pc = "done"
    /\ dist.wall
    /\ dist.url = LoginUrl
    /\ outcome.error = ErrAt("BlockedByReauth",
                             "Blocked by Shopify Accounts login / 2FA at partners-distribution",
                             LoginUrl)

\* C8: in interactive mode the wait on the wall is bounded by 10 minutes: when the
\* page is back on partners within that time the run goes on to
\* SelectDistributionMethod, otherwise it fails when the time is up.
C8_BoundedInteractiveWait ==
    (impl = "v2" /\ dist.wall /\ Headed) =>
        /\ dist.elapsed <= MaxWaitMs
        /\ dist.polls * PollMs = dist.elapsed
        /\ dist.reauth \in {"completed", "timedout"}
        /\ dist.reauth = "timedout" =>
             /\ dist.done > MaxWaitMs
             /\ dist.elapsed = MaxWaitMs
             /\ pc \in {"finally", "done"}
             /\ Thrown.kind = "BlockedByReauth"
             /\ ~Started(4)
        /\ (dist.reauth = "completed" /\ dist.gotos = 1) =>
             /\ dist.done <= MaxWaitMs
             /\ dist.done <= dist.elapsed
             /\ dist.elapsed < dist.done + PollMs
             /\ OnPartners(dist.url)
             /\ pc \in {"save", "selectEntry", "selectBody", "finally", "done"}
             /\ pc \in {"selectBody", "finally", "done"} => Started(4)

\* the operator finished exactly when the 10 minutes were up, and the run went on
C8_Witness ==
    /\ impl = "v2"
    /\ Headed
    /\ dist.reauth = "completed"
    /\ dist.done = MaxWaitMs
    /\ dist.elapsed = MaxWaitMs
    /\ dist.saved
    /\ Started(4)
    /\ pc = "selectBody"

\* C9: the persisted session blob is rewritten only by a run that observed the wall
\* and saw the re-authentication completed; every other run leaves it unchanged.
C9_BlobRewrittenOnlyAfterReauth ==
    [][blobFile' # blobFile => (pc = "save" /\ dist.wall /\ dist.reauth = "completed")]_vars

\* a run that starts from the blob an earlier run saved after a re-authentication
C9_RefreshedBlobInUse ==
    /\ pc = "newContext"
    /\ blobFile = RefreshedBlob
    /\ ~Falsy(env.SHOPIFY_STORAGE_STATE_JSON)

\* the condition under which each loop takes candidate i
Matches(i) ==
    scan.st[i] = (CASE scan.list \in {"clientId", "clientSecret"} -> "value"
                    [] scan.list = "domainInput" -> "present"
                    [] OTHER -> "ok")
UpTo(k) == [i \in 1..k |-> i]
CandidateTexts == IF scan.list = "clientId" THEN IdTexts ELSE SecretTexts

DerivedName == req.brand_name.val \o <<" x Retention">>

\* C13: for every valid request the app_name of the returned result is
\* "<brand_name> x Retention", the same name was typed into the creation form, and
\* the returned store_domain is the request's store_domain unchanged.
C13_DerivedAppName ==
    /\ (Called /\ page.typedName # <<>>) => page.typedName = DerivedName
    /\ \A o \in {pending, outcome} :
         o.state = "returned" =>
            /\ o.result.app_name = DerivedName
            /\ o.result.app_name = page.typedName
            /\ o.result.store_domain = req.store_domain

\* brand_name "Acme" gives "Acme x Retention"
C13_Witness ==
    /\ pc = "done"
    /\ req.brand_name = Str(<<"Acme">>)
    /\ outcome.state = "returned"
    /\ outcome.result.app_name = <<"Acme", " x Retention">>
    /\ page.typedName = <<"Acme", " x Retention">>
    /\ outcome.result.store_domain = Str(AcmeDomain)

\* C16: a run that fails with a configuration error fails at run start: the browser
\* was not launched and the creation form was not submitted.
C16_ConfigurationFailsAtRunStart ==
    Thrown.kind = "ConfigurationError" =>
        /\ browser.launches = 0
        /\ ~Started(1)
        /\ page.appId = ""

\* a run that created the app and then found APP_URL missing
C16_CreatedThenMisconfigured ==
    /\ pc = "done"
    /\ outcome.error = Err("ConfigurationError", "Missing env var: APP_URL")
    /\ browser.launches = 1
    /\ stageState[Stages[1]] = "Verified"
    /\ page.appId # ""

\* the value is a string that names the managed-store suffix
ReferencesSuffix(v) == v.type = "string" /\ Includes(v.val, <<Suffix>>)

\* C18: generateShopifyApp called directly with a store_domain that does not name
\* myshopify.com fails with a validation error before any browser work.
C18_CoreRevalidatesDomain ==
    (entry = "direct" /\ pc # "validate" /\ ValidBrand(req.brand_name)
        /\ ~ReferencesSuffix(req.store_domain)) =>
        /\ NoBrowserWork
        /\ pc = "done"
        /\ outcome.state = "threw"

\* a direct call for example.com that launched the browser
C18_ForeignDomainLaunched ==
    /\ entry = "direct"
    /\ req.store_domain = Str(<<"example.com">>)
    /\ browser.launches = 1
    /\ Started(1)

\* the URL holds /apps/<digits> followed by '/' or by the end of the URL
HasAppIdSegment(url) ==
    \E i \in 1..Len(url) :
        /\ url[i] = "/apps/"
        /\ i + 1 <= Len(url)
        /\ url[i + 1] \in Digits
        /\ (i + 1 = Len(url) \/ url[i + 2] \in PathTokens)

\* the run is past the wait for the detail page of the created app; until the
\* settings navigation page.url is where the creation form or the version form left
\* the page
PastCreateLanded == Started(1) /\ pc \notin {"createOpen", "createSubmit", "createLanded"}

\* C20: when the URL the browser landed on after the creation form was submitted
\* holds no app id, the run fails and ConfigureAndPublishVersion is never started;
\* when that URL satisfied the wait pattern /apps/<digits> the error is the
\* unknown-UI-change error and carries the URL.
C20_NoAppIdFailsCreate ==
    (impl \in {"v2", "p3"} /\ PastCreateLanded /\ ~Started(3)
       /\ ~HasAppIdSegment(page.url)) =>
        /\ pc \in {"finally", "done"}
        /\ stageState[Stages[1]] = "Failed"
        /\ ~Started(2)
        /\ page.appId = ""
        /\ MatchesAppsDigits(page.url) =>
             /\ Thrown.kind = "AmbiguousUiState"
             /\ Thrown.url = page.url

\* the wait pattern was satisfied by /apps/123abc
C20_Witness ==
    /\ pc = "done"
    /\ page.url = AppDetailOddUrl
    /\ outcome.error = ErrAt("AmbiguousUiState",
                             "Create succeeded but couldn't parse appId from URL",
                             AppDetailOddUrl)
    /\ stageLog = <<Stages[1]>>

\* C19: the endpoint answers a request whose brand_name is missing, empty or not a
\* string, or whose store_domain is missing, not a string or does not end in
\* myshopify.com, with status 400 and does not call generateShopifyApp; brand_name is
\* tested first.
C19_EndpointValidatesFirst ==
    (entry = "http" /\ (~ValidBrand(req.brand_name) \/ ~ValidDomainEndsWith(req.store_domain))) =>
        /\ pc = "done"
        /\ http.phase = "responded"
        /\ http.status = 400
        /\ http.coreCalls = 0
        /\ NoBrowserWork
        /\ ~ValidBrand(req.brand_name) => http.body = ErrorBody("brand_name is required")

\* part_002 called generateShopifyApp for acme.myshopify.com.example.net
C19_LookalikeReachesCore ==
    /\ entry = "http"
    /\ http.server = "part_002"
    /\ req.store_domain = Str(LookalikeDomain)
    /\ http.coreCalls = 1
    /\ browser.launches = 1

\* a value was typed and read back in the stage the run is in
ReadBack(i) == Len(stageLog) = i /\ ui.wrote # <<>>
Clicked(c) == \E k \in 1..Len(ui.clicks) : ui.clicks[k] = c
\* the run goes on, or fails with another error than the mismatch
NoMismatch == Thrown.kind # "VerificationMismatch"
\* the run is failing with the mismatch error that carries `got`
MismatchWith(got) ==
    /\ pc \in {"finally", "done"}
    /\ stageState[Stages[Len(stageLog)]] = "Failed"
    /\ Thrown.kind = "VerificationMismatch"
    /\ Thrown.detail = <<ui.wrote, got>>
    /\ ~Clicked("release")
    /\ ~Clicked("generate")

C12_SelectIdempotent ==
    (Len(stageLog) = 4 /\ ui.found = "target") =>
        /\ ui.clicks = <<>>
        /\ stageState[Stages[4]] = "Verified"
        /\ pc = "fillEntry"

\* lines 1225-1867 clicked the card and the Select button although the input was there
C12_ClickedAgain ==
    /\ impl = "v3"
    /\ Len(stageLog) = 4
    /\ ui.found = "target"
    /\ ui.clicks = <<"card", "next">>

\* C14: the request {Acme, acme.myshopify.com} against a cooperative console (both
\* credentials found, link shown) returns app_name "Acme x Retention", a non-empty
\* client_id and client_secret, and a distribution_link containing acme.myshopify.com.
C14_EndToEnd ==
    (/\ outcome.state = "returned"
     /\ req.brand_name = Str(<<"Acme">>)
     /\ req.store_domain = Str(AcmeDomain)
     /\ creds.clientId # <<>>
     /\ creds.clientSecret # <<>>
     /\ dist.shown # <<>>) =>
        /\ \A st \in StageSet : stageState[st] = "Verified"
        /\ outcome.result.app_name = <<"Acme", " x Retention">>
        /\ outcome.result.client_id # <<>>
        /\ outcome.result.client_secret # <<>>
        /\ Includes(outcome.result.distribution_link, AcmeDomain)

\* lines 1225-1867: the link was shown and the result holds an empty distribution_link
C14_LinkLost ==
    /\ impl = "v3"
    /\ outcome.state = "returned"
    /\ req.store_domain = Str(AcmeDomain)
    /\ dist.shown = InstallLink(AcmeDomain) \o <<" ">>
    /\ outcome.result.distribution_link = <<>>

\* C15: outside the bypass loop and the re-authentication wait nothing is tried again:
\* once the created app was looked for and not found, the run is failing.
C15_FailedLookupAborts ==
    page.misses > 0 =>
        /\ pc \in {"finally", "done"}
        /\ Thrown.kind # "none"

\* the created app was found in the list at the fourth attempt and the run went on
C15_FoundOnFourthAttempt ==
    /\ impl = "v3"
    /\ page.misses = 3
    /\ stageState[Stages[1]] = "Verified"
    /\ pc = "configureCheck"

\* C17: a screenshot that cannot be captured never fails the run nor replaces the
\* error of the stage, and with the screenshot flag off no capture is attempted.
C17_ScreenshotNeverFailsRun ==
    /\ Thrown.kind # "ScreenshotFailed"
    /\ ~screenshotsEnabled(env) => ui.shot = "none"

\* part_003: the app URL did not stick, the capture threw, the caller got its error
C17_CaptureReplacedMismatch ==
    /\ impl = "p3"
    /\ pc = "done"
    /\ ui.wrote = AppUrl
    /\ ui.echo = <<"about:blank">>
    /\ ui.shot = "threw"
    /\ outcome.error = ScreenshotError

-----------------------------------------------------------------------------
\* the last k tokens of a URL
LastTokens(url, k) == IF Len(url) < k THEN <<>> ELSE SubSeq(url, Len(url) - k + 1, Len(url))

StageRunning(i) == stageState[Stages[i]] = "Running"

C21_IdState ==
    /\ (\E i \in 2..5 : StageRunning(i)) => page.appId \in Digits
    /\ StageRunning(2) /\ pc \in {"configureEmbed", "configureRelease"}
         => LastTokens(page.url, 3) = <<"/apps/", page.appId, "/versions/new">>
    /\ StageRunning(3) => LastTokens(page.target, 3) = <<"/apps/", page.appId, "/settings">>
    /\ dist.target # <<>>
         => LastTokens(dist.target, 3) = <<"/apps/", page.appId, "/distribution">>

C21_IdStep ==
    /\ stageState[Stages[1]] # "Verified" /\ stageState'[Stages[1]] = "Verified"
         => page'.appId # "" /\ page'.appId = extractAppId(page'.url)
    /\ stageState[Stages[1]] = "Verified" /\ stageState'[Stages[1]] = "Verified"
         => page'.appId = page.appId

\* C21: while stage 2, 3, 4 or 5 is running the app id is a non-empty digit string, it
\* is the one extractAppId gave for the URL on which CreateResource ended and it never
\* changes afterwards, and the versions/new URL, the settings URL and the distribution
\* URL navigated to carry that id after /apps/.
C21_IdentifierImmutable == [](C21_IdState) /\ [][C21_IdStep]_vars

\* stage 5 is running on the distribution page of the app created in stage 1
C21_Witness ==
    /\ StageRunning(5)
    /\ page.appId = "123"
    /\ dist.url = distributionUrl(partnersId, page.appId)

-----------------------------------------------------------------------------
StageFailed(i) == stageState[Stages[i]] = "Failed" /\ pc \in {"finally", "done"}

\* C22: a Release button that is disabled, or whose state cannot be read, is not clicked
\* and fails ConfigureAndPublishVersion; whenever Release was clicked the button had been
\* found enabled and the app URL had read back as written.
C22_PublishOnlyWhenEnabled ==
    /\ ui.release \in {"disabled", "unreadable"} => StageFailed(2) /\ ~Clicked("release")
    /\ Clicked("release") =>
         /\ ui.release = "enabled"
         /\ ui.wrote = AppUrl
         /\ Trim(ui.echo) = ui.wrote

\* the state of the Release button could not be read: the run failed without a click
C22_Witness ==
    /\ impl = "v2"
    /\ pc = "done"
    /\ ui.release = "unreadable"
    /\ ui.clicks = <<>>
    /\ outcome.error.kind = "ReleaseDisabled"

\* C23: the confirmation of the release is clicked only when it is found, and without a
\* confirmation ConfigureAndPublishVersion is verified all the same.
C23_ConfirmationOptional ==
    /\ Clicked("confirmRelease") => ui.confirm = "present"
    /\ ui.confirm = "absent" => stageState[Stages[2]] = "Verified"

\* part_003: Release was clicked, no confirmation came up, the wait for it failed the run
C23_FailedWaitingForConfirmation ==
    /\ impl = "p3"
    /\ pc = "done"
    /\ ui.confirm = "absent"
    /\ ui.clicks = <<"release">>
    /\ outcome.state = "threw"
    /\ outcome.error.kind = "ElementNotFound"

\* C24: ConfigureAndPublishVersion goes on after the embed step only with the checkbox
\* unchecked; a checkbox still checked after the click, or not found, fails the stage
\* and Release is not clicked.
C24_EmbedVerified ==
    ui.embed \in {"stuck", "absent"} => StageFailed(2) /\ ~Clicked("release")

\* the checkbox stayed checked and the version was released
C24_ReleasedWhileEmbedded ==
    /\ ui.embed = "stuck"
    /\ Clicked("uncheckEmbed")
    /\ Clicked("release")
    /\ stageState[Stages[2]] = "Verified"

FieldWritten(rb) == rb \notin {"none", "missing"}

\* C25: a scopes or redirect field that is not found fails the stage before Release;
\* once both fields are written, whatever they read back (the same, something else,
\* nothing) the stage goes on to the Release button; and a look at the fields after the
\* release that cannot read them leaves the stage verified.  (The screenshots of
\* part_003 and of lines 1225-1867 are another matter, see C17.)
C25_BestEffortReadback ==
    /\ (ui.scopesRb = "missing" \/ ui.redirectRb = "missing") =>
         /\ StageFailed(2)
         /\ Thrown.kind = "ElementNotFound"
         /\ ~Clicked("release")
    /\ (FieldWritten(ui.scopesRb) /\ FieldWritten(ui.redirectRb) /\ ui.shot # "threw") =>
         pc = "configureRelease" \/ ui.release # "none"
    /\ (ui.verify = "unreadable" /\ ui.shot # "threw") => stageState[Stages[2]] = "Verified"

\* scopes could not be read back, the redirect URL read back differently, the fields
\* could not be read after the release: the stage is verified
C25_Witness ==
    /\ impl = "v2"
    /\ pc = "scrapeOpen"
    /\ ui.scopesRb = "unreadable"
    /\ ui.redirectRb = "differs"
    /\ ui.verify = "unreadable"
    /\ Clicked("release")
    /\ stageState[Stages[2]] = "Verified"

-----------------------------------------------------------------------------
AllCandidates == UpTo(Len(IdTexts))

\* C26: once the settings page is open ScrapeCredentials cannot fail: whatever the
\* candidates do (absent, throwing, empty, with a value) each scan ends with a non-empty
\* value at its first hit or, every candidate tried, with the empty string; an empty
\* value does not end a scan; the stage is verified and the run goes on to the
\* distribution page, also with both values empty.
C26_ScrapeNeverFatal ==
    /\ stageState[Stages[3]] = "Failed" =>
         Thrown.kind = "NavigationTimeout" /\ Thrown.msg = "page.goto: Timeout exceeded"
    /\ scan.list \in {"clientId", "clientSecret"} =>
         IF scan.hit = 0
         THEN scan.tried = AllCandidates /\ scan.value = <<>>
         ELSE scan.tried = UpTo(scan.hit) /\ scan.value # <<>>
    /\ pc = "scrapeSecret" => StageRunning(3) /\ creds.clientId = scan.value
    /\ pc = "distOpen" =>
         /\ stageState[Stages[3]] = "Verified"
         /\ creds.clientSecret = scan.value
         /\ Thrown = NoError

\* neither value was found and SelectDistributionMethod is running
C26_Witness ==
    /\ creds.clientId = <<>>
    /\ creds.clientSecret = <<>>
    /\ stageState[Stages[3]] = "Verified"
    /\ StageRunning(4)

-----------------------------------------------------------------------------
SelectRan == Len(stageLog) = 4 /\ ui.found # "none"

\* C27: when the domain input is not there after the direct select, the card and
\* generic-confirm fallback and the modal confirmation, SelectDistributionMethod fails
\* with an error carrying the URL of the page and stage 5 is not started; and a verified
\* SelectDistributionMethod has seen the domain input.
C27_PostconditionEnforced ==
    /\ (SelectRan /\ ~ui.reached) =>
         /\ StageFailed(4)
         /\ Thrown.url = dist.url
         /\ Thrown.url # <<>>
    /\ (SelectRan /\ stageState[Stages[4]] = "Verified") => ui.observed

\* lines 1225-1867: card and Select clicked, no domain input came up, the stage is
\* verified and stage 5 is about to start
C27_VerifiedWithoutDomainInput ==
    /\ impl = "v3"
    /\ pc = "fillEntry"
    /\ SelectRan
    /\ ui.clicks = <<"card", "next">>
    /\ ~ui.reached
    /\ ~ui.observed
    /\ stageState[Stages[4]] = "Verified"

-----------------------------------------------------------------------------
HasKind(k) == \E i \in 1..Len(scan.st) : scan.st[i] = k
FilledKind == IF scan.hit = 0 THEN "none" ELSE scan.st[scan.hit]

\* C28: the input that takes the store domain is the label-based one when there is
\* one, else the one with the id pattern when there is one, else the one with the
\* placeholder.
C28_LabelIdPlaceholderOrder ==
    scan.list = "domainElement" =>
        /\ HasKind("label") => FilledKind = "label"
        /\ (~HasKind("label") /\ HasKind("polaris")) => FilledKind = "polaris"
        /\ (~HasKind("label") /\ ~HasKind("polaris") /\ HasKind("placeholder"))
             => FilledKind = "placeholder"

\* lines 557-1224: an input with a Polaris id comes before one with a placeholder, no
\* input has a label, and the one with the placeholder is filled
C28_PlaceholderBeforeId ==
    /\ impl = "v2"
    /\ scan.list = "domainElement"
    /\ scan.st = <<"polaris", "placeholder">>
    /\ scan.tried = <<1, 2>>
    /\ scan.hit = 2

ShapedFields == {i \in 2..Len(scan.st) : LinkShaped(inputValueTrimmed(scan.st[i]))}

ResultFields ==
    {"present", "app_name", "client_id", "client_secret", "distribution_link", "note",
     "store_domain"}

LinkFoundNote == IF impl = "v2" THEN NoteV2 ELSE NoteP3

\* C30: a run that returns a result whose distribution_link is the empty string
\* returns one that can be told from the result of a run that found a link by
\* something other than the link: its note differs from the note returned with a
\* link, or it has a field the other has not.
C30_EmptyLinkFlagged ==
    (outcome.state = "returned" /\ outcome.result.distribution_link = <<>>) =>
        \/ outcome.result.note # LinkFoundNote
        \/ DOMAIN outcome.result # ResultFields

\* lines 1209-1220: nothing was shown after Generate link, every stage is verified, and
\* the result carries the note "... generated distribution link (if not blocked by 2FA)."
C30_EmptyLinkSameNote ==
    /\ impl = "v2"
    /\ pc = "done"
    /\ outcome.state = "returned"
    /\ dist.shown = <<>>
    /\ \A st \in StageSet : stageState[st] = "Verified"
    /\ outcome.result.distribution_link = <<>>
    /\ outcome.result.note = NoteV2
    /\ DOMAIN outcome.result = ResultFields

\* every result returned with a link has the seven fields and the iteration's note
LinkFoundShape ==
    (outcome.state = "returned" /\ outcome.result.distribution_link # <<>>) =>
        /\ outcome.result.note = LinkFoundNote
        /\ DOMAIN outcome.result = ResultFields


\* C31: in every iteration, a returned result holds the cleaned link that the page
\* showed after Generate link whenever one was shown, and the cleaned client id and
\* client secret as scraped.
C31_ResultCarriesScrapedValues ==
    outcome.state = "returned" =>
        /\ outcome.result.client_id = clean(creds.clientId)
        /\ outcome.result.client_secret = clean(creds.clientSecret)
        /\ dist.shown # <<>> => outcome.result.distribution_link = clean(dist.shown)

\* lines 1617-1724: the link was on the page, the function ends without a return
\* statement, and the result holds the credentials but an empty distribution_link
C31_ScrapedLinkDropped ==
    /\ impl = "v3"
    /\ pc = "done"
    /\ outcome.state = "returned"
    /\ dist.shown = InstallLink(req.store_domain.val) \o <<" ">>
    /\ link = <<>>
    /\ outcome.result.client_id = clean(creds.clientId)
    /\ outcome.result.client_id # <<>>
    /\ outcome.result.distribution_link = <<>>

\* the iterations whose fillDomainAndGenerateLink returns the link it scraped
ReturningIterationsCarryLink ==
    (impl # "v3" /\ outcome.state = "returned" /\ dist.shown # <<>>) =>
        outcome.result.distribution_link = clean(dist.shown)


\* C32: the page is classified after the navigation of every stage, not only after
\* the distribution navigation: once the settings navigation has ended on
\* accounts.shopify.com, the credential scrape does not read that page, no later
\* stage is started and the run ends with the BlockedByReauth error.
C32_DetectorBetweenStages ==
    (Started(3) /\ OnAccounts(page.url) /\ pc # "scrapeId") =>
        /\ pc \in {"finally", "done"}
        /\ Thrown.kind = "BlockedByReauth"
        /\ scan.list \notin {"clientId", "clientSecret"}
        /\ creds.clientId = <<>>
        /\ ~Started(4)
        /\ ~Started(5)

\* lines 1154-1160: the settings navigation ended on the login page, the candidates
\* found nothing there, and the run went on through the last two stages and returned
\* a result with empty credentials
C32_WallScrapedAsSettings ==
    /\ impl = "v2"
    /\ pc = "done"
    /\ page.url = LoginUrl
    /\ page.target = SettingsUrl(page.dashboardId, page.appId)
    /\ outcome.state = "returned"
    /\ \A st \in StageSet : stageState[st] = "Verified"
    /\ outcome.result.client_id = <<>>
    /\ outcome.result.client_secret = <<>>
    /\ outcome.result.distribution_link # <<>>


\* the number of candidates of the list the last scan went through
ScanLength ==
    CASE scan.list = "clientId" -> Len(IdTexts)
      [] scan.list = "clientSecret" -> Len(SecretTexts)
      [] scan.list = "submitCreate" -> NumSubmitCands
      [] scan.list = "domainInput" -> Len(DomainCandidates)
      [] OTHER -> 0

\* the counters of the loops of a run stay within the ceilings of the loops
LoopsBounded ==
    /\ dist.attempts <= MaxBypassAttempts
    /\ Len(dist.landings) <= MaxBypassAttempts
    /\ dist.elapsed <= MaxWaitMs
    /\ dist.polls <= MaxWaitMs \div PollMs
    /\ page.misses <= MaxListAttempts
    /\ Len(scan.tried) <= ScanLength

\* C33: every call of generateShopifyApp ends, with a returned result or with a
\* thrown failure, given that every awaited step settles; the chooser bypass makes at
\* most 5 attempts, the wait for re-authentication lasts at most 10 minutes, the apps
\* list is looked up at most 10 times and a candidate scan queries at most the
\* candidates of its list.
C33_EveryRunTerminates ==
    /\ [](LoopsBounded)
    /\ (pc = "validate") ~> (pc = "done" /\ outcome.state \in {"returned", "threw"})

\* the apps list was reloaded ten times without the app, and the call ended
C33_Witness ==
    /\ impl = "v3"
    /\ pc = "done"
    /\ page.misses = MaxListAttempts
    /\ outcome.state = "threw"
    /\ outcome.error.kind = "ResourceNotListed"


\* C35: a run that creates its context while the file at the storage path holds the
\* blob an earlier run saved after a re-authentication loads that refreshed blob, and
\* creating the context leaves the file as it is; so does resolving the path before
\* the save.
C35_RefreshedBlobSurvives ==
    [][/\ (pc = "newContext" /\ blobFile = RefreshedBlob)
            => /\ blobFile' = RefreshedBlob
               /\ pc' = "newPage" => browser'.blob = RefreshedBlob
       /\ pc = "save" => blobFile' = RefreshedBlob]_vars

\* lines 1189-1195 with SHOPIFY_STORAGE_STATE_JSON set: the refreshed blob has just
\* been saved to the file that getStorageStatePath writes at the start of every run
C35_RefreshedBlobAtRewrittenPath ==
    /\ impl = "v2"
    /\ ~Falsy(env.SHOPIFY_STORAGE_STATE_JSON)
    /\ pc = "selectEntry"
    /\ dist.reauth = "completed"
    /\ dist.saved
    /\ browser.blob = OriginalBlob
    /\ blobFile = RefreshedBlob

\* without SHOPIFY_STORAGE_STATE_JSON the next run loads what the last run saved
RefreshedBlobSurvivesAtFixedPath ==
    [][(Falsy(env.SHOPIFY_STORAGE_STATE_JSON) /\ pc = "newContext"
          /\ blobFile = RefreshedBlob)
         => /\ blobFile' = RefreshedBlob
            /\ pc' = "newPage" => browser'.blob = RefreshedBlob]_vars


Last(s) == s[Len(s)]
Saved(r) == race.at[r] = "saved"

\* C34: two calls that both met the wall, both saw the re-authentication completed
\* and both saved leave in the file the session of the call that saved last, whatever
\* the order, and the session of the other call is in no file; a call saves at most
\* once, and up to its save it holds the blob it loaded at its start.
C34_LastWriteWins ==
    /\ Len(race.order) <= 2
    /\ \A r \in Runs : Saved(r) <=> (\E i \in 1..Len(race.order) : race.order[i] = r)
    /\ \A r \in Runs : race.loaded[r] # RefreshedBy(r)
    /\ (\A r \in Runs : Saved(r)) =>
          /\ race.order[1] # race.order[2]
          /\ blobFile = RefreshedBy(Last(race.order))
          /\ blobFile # RefreshedBy(race.order[1])

\* both calls loaded the original blob and saved, call 2 first: the file holds the
\* session of call 1
C34_Witness ==
    /\ race.order = <<2, 1>>
    /\ \A r \in Runs : Saved(r) /\ race.loaded[r] = OriginalBlob
    /\ blobFile = RefreshedBy(1)

\* both calls are between resolving the path and writing the file
BothSaving == \A r \in Runs : race.at[r] = "saving"


\* the URL is on partners.shopify.com and is that of a distribution view
OnDistributionView(url) == OnPartners(url) /\ Includes(url, <<"/distribution">>)

\* C36: when SelectDistributionMethod is entered on a page whose URL is not the
\* partners distribution view, the stage fails without a click, and
\* FillActivationTargetAndGenerateLink is not started; so neither stage clicks or
\* fills anything on such a page.
C36_ActsOnlyOnDistributionPage ==
    (Started(4) /\ ~OnDistributionView(dist.url)) =>
        /\ stageState[Stages[4]] = "Failed"
        /\ ~Started(5)
        /\ ui.clicks = <<>>
        /\ ui.wrote = <<>>

\* part_003:301-303 tests the host only: the page is the partners home, the method was
\* chosen there, and the domain was typed and Generate link clicked
C36_FilledOffDistribution ==
    /\ impl = "p3"
    /\ dist.url = PartnersHomeUrl
    /\ stageState[Stages[4]] = "Verified"
    /\ pc = "return"
    /\ ui.wrote = req.store_domain.val
    /\ Clicked("generate")

\* lines 873-882 test the host and the path: there the property holds
ActsOnlyOnDistributionPageV2 == impl = "v2" => C36_ActsOnlyOnDistributionPage


\* the give-up of the loop over the apps list: after the tenth lookup without the app
\* the stage has failed and no identifier was taken
ListLookupGivesUp ==
    (impl = "v3" /\ page.misses = MaxListAttempts) =>
          /\ stageState[Stages[1]] = "Failed"
          /\ page.appId = ""

\* C37: when CreateResource ends through ensureCreatedAppDetailPage, the identifier
\* it returned is that of the app the run created, never that of another app linked
\* from the creation page or listed under a name that holds appName; and after ten
\* lookups of the apps list without the app the run fails with no identifier.
C37_NoFallbackToAnotherApp ==
    /\ (impl = "v3" /\ stageState[Stages[1]] = "Verified") => page.appId = CreatedAppId
    /\ ListLookupGivesUp

\* lines 1376-1393: the creation page held a link to app 456; the run configured,
\* released and read the credentials of that app and returned
C37_OtherAppAdopted ==
    /\ impl = "v3"
    /\ pc = "done"
    /\ outcome.state = "returned"
    /\ page.misses = 0
    /\ page.appId = "456"
    /\ dist.target = distributionUrl(partnersId, "456")


\* the endpoint of server.js has resolved the mode of a valid request and the flags
\* it resolved it from are still at hand
ModeResolved ==
    /\ entry = "http"
    /\ http.server = "server.js"
    /\ pc = "validate" \/ http.body.kind = "stub"

\* the environment's value reads "true" in any case of letters
EnvTrue(v) == v.type = "string" /\ ToLower(v.val) = <<"true">>

\* the condition under which the request is to be answered by the stub
StubExpected ==
    \/ req.stub = Bool(TRUE)
    \/ req.dry_run = Bool(TRUE)
    \/ /\ Bool(FALSE) \notin {req.stub, req.dry_run}
       /\ EnvTrue(http.envSTUB) \/ EnvTrue(http.envDRY_RUN)

ModeResolution ==
    /\ ModeResolved =>
          IF StubExpected
          THEN /\ http.phase = "responded"
               /\ http.status = 200
               /\ http.body.kind = "stub"
               /\ http.body.mode = "stub"
               /\ http.coreCalls = 0
               /\ pc = "done"
               /\ NoBrowserWork
          ELSE /\ http.phase = "core"
               /\ http.coreCalls = 1
               /\ pc = "validate"
    /\ (entry = "http" /\ http.server = "server.js") =>
          /\ http.coreCalls <= 1
          /\ http.coreCalls = 1 => http.body.kind # "stub"

\* a response that follows a call of generateShopifyApp
AnsweredAfterCall ==
    entry = "http" /\ http.server = "server.js" /\ http.phase = "responded" /\ http.coreCalls = 1

\* C38 (as stated): the stub answers, with no call of generateShopifyApp, exactly when
\* stub or dry_run is true in the body, or neither is false and STUB or DRY_RUN of the
\* environment reads "true"; in every other case generateShopifyApp is called exactly
\* once and the response has mode "real".
C38_AsStated ==
    /\ ModeResolution
    /\ AnsweredAfterCall => (http.body.kind = "result" /\ http.body.mode = "real")

\* C38 (amended): the same resolution; in every other case generateShopifyApp is
\* called exactly once, and the response has status 200 and mode "real" when the call
\* returned, and status 500 with the error message and no mode when it threw.
C38_ModeResolution ==
    /\ ModeResolution
    /\ AnsweredAfterCall =>
          IF outcome.state = "returned"
          THEN http.status = 200 /\ http.body.kind = "result" /\ http.body.mode = "real"
          ELSE http.status = 500 /\ http.body.kind = "error"

\* stub: false in the body with STUB=TRUE in the environment: generateShopifyApp is
\* called
C38_Witness ==
    /\ ModeResolved
    /\ req.stub = Bool(FALSE)
    /\ req.dry_run = Undefined
    /\ http.envSTUB = Str(<<"TRUE">>)
    /\ http.coreCalls = 1
    /\ pc = "validate"

\* dry_run: false does not override stub: true
FalseDoesNotOverrideTrue ==
    /\ ModeResolved
    /\ req.stub = Bool(TRUE)
    /\ req.dry_run = Bool(FALSE)
    /\ http.body.kind = "stub"


\* C39: the app_name of the stub response is the app_name generateShopifyApp derives
\* for the same request, "<brand_name> x Retention".
C39_StubNameAsReal ==
    (entry = "http" /\ http.phase = "responded" /\ http.body.kind = "stub") =>
        http.body.app_name = AppName(req.brand_name.val)

\* server.js:71-78 against generateShopifyApp.js:1071: the stub answers
\* "Acme X Retention" where the workflow names the app "Acme x Retention"
C39_StubNameDiffers ==
    /\ entry = "http"
    /\ http.server = "server.js"
    /\ http.body.kind = "stub"
    /\ req.brand_name = Str(<<"Acme">>)
    /\ http.body.app_name = <<"Acme", " X Retention">>
    /\ AppName(req.brand_name.val) = <<"Acme", " x Retention">>

====
